---- MODULE Spec2Model ----
(***************************************************************************)
(* Command execution engine of the Friendshipper revision control          *)
(* provider: FFriendshipperSourceControlProvider (Execute, IssueCommand,   *)
(* ExecuteSynchronousCommand, Tick, CancelOperation), the command object   *)
(* FFriendshipperSourceControlCommand (DoWork, Abandon, Cancel,            *)
(* ReturnResults), the workers' Execute/UpdateStates and the merge of the  *)
(* workers' deltas into the state cache (UpdateCachedStates).              *)
(*                                                                         *)
(* Threads.  The owning (game) thread runs Execute, Tick, CancelOperation  *)
(* and the game-thread tasks of the repository check.  Pool threads run    *)
(* DoThreadedWork or Abandon of a queued command.  A step of the model is  *)
(* one call on one thread; the blocking loop of ExecuteSynchronousCommand  *)
(* is one step per iteration, because pool threads run between its polls.  *)
(* bExecuteProcessed and bCancelled are written with InterlockedExchange   *)
(* and only ever go from 0 to 1, so the scan of Tick() is taken as one     *)
(* step: a flag set while the scan is under way is seen either by this     *)
(* scan or by the next one.                                                *)
(***************************************************************************)
EXTENDS Integers, Sequences, FiniteSets, TLC

\* Bounds of the model
MaxCmds == 2        \* commands created by Execute in one run
MaxFiles == 1       \* file identities
MaxIgnore == 1      \* the multiplicity of a file in IgnoreForceCache saturates here
MaxReturns == 2     \* the count of ReturnResults() calls on a command saturates here
MaxLockFiles == 2   \* files of one lock request
MaxRestoreFailures == 11  \* failures of the restore step before it succeeds
MaxRequests == 6     \* the count of remote requests saturates here
MaxIgnoreEntries == 3  \* entries of the IgnoreForceCache array
MaxRefreshes == 2    \* refresh commands of the runner in the queue at a time
MaxProbes == 2       \* runs of the init function, each with its probe

CmdIds == 1..MaxCmds
\* the id that stands for "no command"
NoCmd == MaxCmds + 1
FileIds == 1..MaxFiles

Min2(a, b) == IF a < b THEN a ELSE b
Range(s) == {s[i] : i \in 1..Len(s)}
EmptyStates == [f \in {} |-> "none"]

(***************************************************************************)
(* File state: four axes, lock user, head branch, time stamp               *)
(***************************************************************************)
\* a file that has no entry in the StateCache map
NoEntry ==
    [FileState |-> "NoEntry", TreeState |-> "NoEntry", LockState |-> "NoEntry",
     LockUser |-> "", RemoteState |-> "NoEntry", HeadBranch |-> "", TimeStamp |-> "NoEntry"]

\* the entry GetStateInternal caches for a file it has not seen yet
NewState ==
    [FileState |-> "Unknown", TreeState |-> "NotInRepo", LockState |-> "Unset",
     LockUser |-> "", RemoteState |-> "Unset", HeadBranch |-> "", TimeStamp |-> "Min"]

IsUnknown(S) == S.FileState = "Unknown" /\ S.TreeState = "NotInRepo"
CanAdd(S) == S.TreeState = "Untracked"
IsDeleted(S) == S.FileState = "Deleted"

\* the values of the four axes
FileStates == {"Unset", "Unknown", "Added", "Deleted", "Modified", "Unmerged"}
TreeStates == {"Unset", "Unmodified", "Working", "Staged", "Untracked", "Ignored", "NotInRepo"}
LockStates == {"Unset", "Unlockable", "NotLocked", "Locked", "LockedOther"}
RemoteStates == {"Unset", "UpToDate", "NotAtHead", "NotLatest"}

\* the lock user that comes with a lock state: LockFiles records the
\* provider's lock user with Locked, the status the owner of the lock
LockUserOf(l) == IF l = "Locked" THEN "me" ELSE IF l = "LockedOther" THEN "other" ELSE ""

\* the cached entries: FileState and TreeState are never Unset in the cache
CachedStates ==
    { [FileState |-> f, TreeState |-> t, LockState |-> l, LockUser |-> LockUserOf(l),
       RemoteState |-> r,
       HeadBranch |-> IF r \in {"NotAtHead", "NotLatest"} THEN "release" ELSE "",
       TimeStamp |-> IF f = "Unknown" /\ t = "NotInRepo" THEN "Min" ELSE "Now"] :
        f \in FileStates \ {"Unset"}, t \in TreeStates \ {"Unset"},
        l \in LockStates, r \in RemoteStates }

\* the deltas a worker can leave for a file
Deltas ==
    { [FileState |-> f, TreeState |-> t, LockState |-> l, LockUser |-> LockUserOf(l),
       RemoteState |-> r,
       HeadBranch |-> IF r \in {"NotAtHead", "NotLatest"} THEN "origin" ELSE ""] :
        f \in FileStates, t \in TreeStates, l \in LockStates, r \in RemoteStates }

GetStateInternal(cache, f) == IF cache[f] = NoEntry THEN NewState ELSE cache[f]

\* UpdateCachedStates without the test for an invalid transition
InvalidTransitionNever(S, D) == FALSE

\* the "invalid transition" test of UpdateCachedStates: the delta is skipped
InvalidTransition(S, D) ==
    D.FileState # "Unset" /\ D.FileState = "Added" /\ ~IsUnknown(S) /\ ~CanAdd(S)

\* UpdateCachedStates that assigns LockState without the test for Unset
UpdateCachedStateNoUnsetTest(S, D) ==
    IF InvalidTransition(S, D) THEN S
    ELSE [FileState   |-> IF D.FileState # "Unset" THEN D.FileState ELSE S.FileState,
          TreeState   |-> IF D.TreeState # "Unset" THEN D.TreeState ELSE S.TreeState,
          LockState   |-> D.LockState,
          LockUser    |-> D.LockUser,
          RemoteState |-> IF D.RemoteState # "Unset" THEN D.RemoteState ELSE S.RemoteState,
          HeadBranch  |-> IF D.RemoteState = "Unset" THEN S.HeadBranch
                          ELSE IF D.RemoteState = "UpToDate" THEN "" ELSE D.HeadBranch,
          TimeStamp   |-> IF IsUnknown(S) THEN "Min" ELSE "Now"]

\* UpdateCachedStates that forgets the TreeState axis
UpdateCachedStateNoTree(S, D) ==
    IF InvalidTransition(S, D) THEN S
    ELSE [FileState   |-> IF D.FileState # "Unset" THEN D.FileState ELSE S.FileState,
          TreeState   |-> S.TreeState,
          LockState   |-> IF D.LockState # "Unset" THEN D.LockState ELSE S.LockState,
          LockUser    |-> IF D.LockState # "Unset" THEN D.LockUser ELSE S.LockUser,
          RemoteState |-> IF D.RemoteState # "Unset" THEN D.RemoteState ELSE S.RemoteState,
          HeadBranch  |-> IF D.RemoteState = "Unset" THEN S.HeadBranch
                          ELSE IF D.RemoteState = "UpToDate" THEN "" ELSE D.HeadBranch,
          TimeStamp   |-> IF IsUnknown(S) THEN "Min" ELSE "Now"]

\* UpdateCachedStates whose invalid transition skips the FileState
\* assignment only, not the rest of the delta
UpdateCachedStateGuardFileStateOnly(S, D) ==
    [FileState   |-> IF D.FileState # "Unset" /\ ~InvalidTransition(S, D)
                     THEN D.FileState ELSE S.FileState,
     TreeState   |-> IF D.TreeState # "Unset" THEN D.TreeState ELSE S.TreeState,
     LockState   |-> IF D.LockState # "Unset" THEN D.LockState ELSE S.LockState,
     LockUser    |-> IF D.LockState # "Unset" THEN D.LockUser ELSE S.LockUser,
     RemoteState |-> IF D.RemoteState # "Unset" THEN D.RemoteState ELSE S.RemoteState,
     HeadBranch  |-> IF D.RemoteState = "Unset" THEN S.HeadBranch
                     ELSE IF D.RemoteState = "UpToDate" THEN "" ELSE D.HeadBranch,
     TimeStamp   |-> IF IsUnknown(S) THEN "Min" ELSE "Now"]

\* UpdateCachedStates that always sets the time stamp to the current time
UpdateCachedStateTimeStampNow(S, D) ==
    IF InvalidTransition(S, D) THEN S
    ELSE [FileState   |-> IF D.FileState # "Unset" THEN D.FileState ELSE S.FileState,
          TreeState   |-> IF D.TreeState # "Unset" THEN D.TreeState ELSE S.TreeState,
          LockState   |-> IF D.LockState # "Unset" THEN D.LockState ELSE S.LockState,
          LockUser    |-> IF D.LockState # "Unset" THEN D.LockUser ELSE S.LockUser,
          RemoteState |-> IF D.RemoteState # "Unset" THEN D.RemoteState ELSE S.RemoteState,
          HeadBranch  |-> IF D.RemoteState = "Unset" THEN S.HeadBranch
                          ELSE IF D.RemoteState = "UpToDate" THEN "" ELSE D.HeadBranch,
          TimeStamp   |-> "Now"]

\* body of the loop of UpdateCachedStates for one file: S is the cached
\* entry (as returned by GetStateInternal), D the delta
UpdateCachedState(S, D) ==
    IF InvalidTransition(S, D) THEN S
    ELSE [FileState   |-> IF D.FileState # "Unset" THEN D.FileState ELSE S.FileState,
          TreeState   |-> IF D.TreeState # "Unset" THEN D.TreeState ELSE S.TreeState,
          LockState   |-> IF D.LockState # "Unset" THEN D.LockState ELSE S.LockState,
          LockUser    |-> IF D.LockState # "Unset" THEN D.LockUser ELSE S.LockUser,
          RemoteState |-> IF D.RemoteState # "Unset" THEN D.RemoteState ELSE S.RemoteState,
          HeadBranch  |-> IF D.RemoteState = "Unset" THEN S.HeadBranch
                          ELSE IF D.RemoteState = "UpToDate" THEN "" ELSE D.HeadBranch,
          TimeStamp   |-> IF IsUnknown(S) THEN "Min" ELSE "Now"]

\* UpdateCachedStates: the state cache after the merge of the deltas InResults
UpdateCachedStates(cache, InResults) ==
    [f \in DOMAIN cache |->
        IF f \in DOMAIN InResults
        THEN UpdateCachedState(GetStateInternal(cache, f), InResults[f])
        ELSE cache[f]]

\* UpdateCachedStates that reports no update
UpdateCachedStatesReturnsFalse(InResults) == FALSE

\* the value UpdateCachedStates returns: false for no deltas, true after the
\* loop over the deltas
UpdateCachedStatesReturns(InResults) == DOMAIN InResults # {}

\* UpdateCachedStates: every merged (not skipped) file is appended to IgnoreForceCache
AddFileToIgnoreForceCache(ignore, cache, InResults) ==
    [f \in DOMAIN ignore |->
        IF f \in DOMAIN InResults /\ ~InvalidTransition(GetStateInternal(cache, f), InResults[f])
        THEN Min2(ignore[f] + 1, MaxIgnore)
        ELSE ignore[f]]

(***************************************************************************)
(* Workers                                                                 *)
(***************************************************************************)
\* the operation names the model submits, each with a registered worker
Kinds == {"CheckIn", "Delete"}
\* an operation name without an entry in WorkersMap
Unsupported == "Unsupported"

\* what the status re-fetch reports for a file (ParseFileStatusResult, CheckRemote)
StatusSamples ==
    { [FileState |-> "Unknown", TreeState |-> "Unmodified", LockState |-> "LockedOther",
       LockUser |-> "other", RemoteState |-> "NotAtHead", HeadBranch |-> "origin"] }

\* delta of the Delete worker for a file: LockFiles marks it Locked by the
\* lock user, then CollectNewStates(Files, Deleted, Unset) sets FileState
DeleteDelta ==
    [FileState |-> "Deleted", TreeState |-> "Unset", LockState |-> "Locked",
     LockUser |-> "me", RemoteState |-> "Unset", HeadBranch |-> ""]

\* FFriendshipperCheckInWorker::Execute after a successful submit:
\* Provider.GetState(Files, Use) caches an unknown entry for every file not
\* yet cached (nothing when the provider is not enabled), then every entry
\* that IsDeleted() is removed from the cache
CheckInCache(cache, files, enabled) ==
    IF ~enabled THEN cache
    ELSE [f \in DOMAIN cache |->
            IF f \in files
            THEN IF IsDeleted(GetStateInternal(cache, f)) THEN NoEntry
                 ELSE GetStateInternal(cache, f)
            ELSE cache[f]]

\* The outcomes of Worker->Execute(Command): the returned bool, the number
\* of error messages left in ResultInfo, the deltas left in the worker's
\* States, and the state cache as Execute leaves it.
CheckInExecute(files, cache, enabled) ==
    \* Client.Submit failed
    { [ok |-> FALSE, errs |-> 0, States |-> EmptyStates, cache |-> cache] }
    \cup
    \* submitted; RunUpdateStatus failed (or no file): no delta
    { [ok |-> TRUE, errs |-> 0, States |-> EmptyStates,
       cache |-> CheckInCache(cache, files, enabled)] }
    \cup
    \* submitted; the status of the files was fetched again
    { [ok |-> TRUE, errs |-> 0, States |-> [f \in files |-> d],
       cache |-> CheckInCache(cache, files, enabled)] : d \in {s \in StatusSamples : files # {}} }

DeleteExecute(files, cache) ==
    IF files = {}
    THEN { [ok |-> TRUE, errs |-> 0, States |-> EmptyStates, cache |-> cache] }
    ELSE \* LockFiles reported failures
         { [ok |-> FALSE, errs |-> 1, States |-> EmptyStates, cache |-> cache] }
         \cup
         \* locked; the files were deleted from disk, or a delete failed
         { [ok |-> b, errs |-> 0, States |-> [f \in files |-> DeleteDelta], cache |-> cache]
             : b \in BOOLEAN }

WorkerExecute(kind, files, cache, enabled) ==
    CASE kind = "CheckIn" -> CheckInExecute(files, cache, enabled)
      [] kind = "Delete"  -> DeleteExecute(files, cache)

\* Worker->UpdateStates() of the CheckIn and Delete workers:
\* UpdateCachedStates(States)
WorkerUpdateStates(kind, cache, States) == UpdateCachedStates(cache, States)

\* the value Worker->UpdateStates() returns
WorkerUpdateStatesReturns(kind, States) == UpdateCachedStatesReturns(States)

WorkerUpdateIgnore(kind, ignore, cache, States) ==
    AddFileToIgnoreForceCache(ignore, cache, States)

(***************************************************************************)
(* State                                                                   *)
(***************************************************************************)
VARIABLES
    GBackgroundPriorityThreadPool, \* TRUE iff the pool pointer is not null
    bGitRepositoryFound,           \* IsEnabled()
    initTask,                      \* game-thread task of CheckRepositoryStatus
    CommandQueue,                  \* TArray of the queued commands, by id
    Commands,                      \* the command objects, by id
    StateCache,                    \* file -> entry, or NoEntry
    IgnoreForceCache,              \* file -> number of entries in the array
    mainThread,                    \* where the owning thread is
    drainRun,                      \* Tick() calls since the queue held only completed commands
    lastCall,                      \* what the latest call did
    pure                           \* inputs and results of the functions checked on their own

vars == <<GBackgroundPriorityThreadPool, bGitRepositoryFound, initTask, CommandQueue,
          Commands, StateCache, IgnoreForceCache, mainThread, drainRun, lastCall, pure>>

\* the variables of the provider and its commands
providerVars == <<GBackgroundPriorityThreadPool, bGitRepositoryFound, initTask, CommandQueue,
                  Commands, StateCache, IgnoreForceCache, mainThread, drainRun, lastCall>>

NoCommand ==
    [life |-> "none", Kind |-> "none", Files |-> {},
     bExecuteProcessed |-> FALSE, bCancelled |-> FALSE, bCommandSuccessful |-> FALSE,
     bAutoDelete |-> TRUE, ErrorMessages |-> 0, States |-> EmptyStates,
     nReturn |-> 0, Results |-> {}, OpErrors |-> 0]

\* a deleted command: its memory is gone, only the fact remains
Freed == [NoCommand EXCEPT !.life = "freed"]

Idle == [pc |-> "idle", cmd |-> NoCmd]
NoRun == [n |-> 0, k |-> 0]

NoCall ==
    [op |-> "none", thread |-> "main", cmd |-> NoCmd, removed |-> {}, merged |-> {},
     called |-> {}, ranWorker |-> {}, cacheChanged |-> FALSE, syncReturned |-> NoCmd,
     conc |-> "none", ret |-> "none", snap |-> NoCommand, broadcast |-> FALSE]

\* nothing is being computed on its own
NoPure == [stage |-> "none"]

\* the provider after construction
ProviderInit ==
    /\ GBackgroundPriorityThreadPool \in BOOLEAN
    /\ bGitRepositoryFound = FALSE
    /\ initTask = "pending"
    /\ CommandQueue = <<>>
    /\ Commands = [c \in CmdIds |-> NoCommand]
    /\ StateCache = [f \in FileIds |-> NoEntry]
    /\ IgnoreForceCache = [f \in FileIds |-> 0]
    /\ mainThread = Idle
    /\ drainRun = NoRun
    /\ lastCall = NoCall

Init ==
    /\ ProviderInit
    /\ pure = NoPure

(***************************************************************************)
(* FFriendshipperSourceControlCommand                                      *)
(***************************************************************************)
IsCanceled(cmd) == cmd.bCancelled

\* the result ReturnResults() hands to the completion delegate
ReturnResultsValue(cmd) ==
    IF cmd.bCancelled THEN "Cancelled"
    ELSE IF cmd.bCommandSuccessful THEN "Succeeded" ELSE "Failed"

\* ReturnResults(): the accumulated messages are added to the operation,
\* then OperationCompleteDelegate.ExecuteIfBound(Operation, Result)
ReturnResults(cmd) ==
    [cmd EXCEPT !.OpErrors = Min2(@ + cmd.ErrorMessages, MaxReturns),
                !.nReturn = Min2(@ + 1, MaxReturns),
                !.Results = @ \cup {ReturnResultsValue(cmd)}]

\* DoWork(): bCommandSuccessful = Worker->Execute(*this), then
\* bExecuteProcessed is set; out is the outcome of Execute
DoWork(cmd, out) ==
    [cmd EXCEPT !.bCommandSuccessful = out.ok, !.ErrorMessages = out.errs,
                !.States = out.States, !.bExecuteProcessed = TRUE]

\* ExecuteSynchronousCommand whose Result keeps its initial value
SynchronousResultInitial(cmd) == "Failed"

\* the result ExecuteSynchronousCommand returns
SynchronousResult(cmd) ==
    IF cmd.bCommandSuccessful THEN "Succeeded"
    ELSE IF cmd.bCancelled THEN "Cancelled" ELSE "Failed"

(***************************************************************************)
(* FFriendshipperSourceControlProvider                                     *)
(***************************************************************************)
IsEnabled == bGitRepositoryFound

FreeIds == {c \in CmdIds : Commands[c].life = "none"}
NextId == CHOOSE c \in FreeIds : \A d \in FreeIds : c <= d

\* Game-thread task queued by CheckRepositoryStatus when the repository was
\* found: merges the initial status and enables the provider
InitSuccess ==
    /\ initTask = "pending"
    /\ mainThread = Idle
    /\ \E files \in {{}, FileIds} : \E d \in StatusSamples :
         LET Results == [f \in files |-> d] IN
         /\ StateCache' = IF files # {} THEN UpdateCachedStates(StateCache, Results)
                          ELSE StateCache
         /\ IgnoreForceCache' = IF files # {}
                                THEN AddFileToIgnoreForceCache(IgnoreForceCache, StateCache, Results)
                                ELSE IgnoreForceCache
         /\ lastCall' = [NoCall EXCEPT !.op = "InitSuccess",
                                       !.merged = IF files # {} THEN {NoCmd} ELSE {},
                                       !.cacheChanged = (StateCache' # StateCache)]
    /\ bGitRepositoryFound' = TRUE
    /\ initTask' = "done"
    /\ UNCHANGED <<pure, GBackgroundPriorityThreadPool, CommandQueue, Commands, mainThread, drainRun>>

\* Game-thread task queued by CheckRepositoryStatus when the check failed
InitError ==
    /\ initTask = "pending"
    /\ mainThread = Idle
    /\ bGitRepositoryFound' = FALSE
    /\ initTask' = "done"
    /\ lastCall' = [NoCall EXCEPT !.op = "InitError"]
    /\ UNCHANGED <<pure, GBackgroundPriorityThreadPool, CommandQueue, Commands, StateCache,
                   IgnoreForceCache, mainThread, drainRun>>

\* Execute() returns Failed at once: the provider is not enabled and the
\* operation is not Connect, or no worker is registered for the operation.
\* The completion delegate is called with Failed before the return.
ExecuteRejected(kind, conc) ==
    /\ mainThread = Idle
    /\ (~IsEnabled /\ kind # "Connect") \/ kind = Unsupported
    /\ lastCall' = [NoCall EXCEPT !.op = "Execute", !.conc = conc,
                                  !.called = {<<NoCmd, "Failed">>}, !.ret = "Failed"]
    /\ UNCHANGED <<pure, GBackgroundPriorityThreadPool, bGitRepositoryFound, initTask, CommandQueue,
                   Commands, StateCache, IgnoreForceCache, mainThread, drainRun>>

\* IssueCommand without the test of the pool pointer
RunsInlineAlways == TRUE

\* IssueCommand without the fallback: the command is always queued
RunsInlineNever == FALSE

\* IssueCommand with the test of the pool pointer inverted
RunsInlineWithPool == GBackgroundPriorityThreadPool

\* IssueCommand: the command runs on the calling thread when there is no pool
RunsInline == ~GBackgroundPriorityThreadPool

\* the command Execute() creates
NewCommand(kind, files, conc) ==
    [NoCommand EXCEPT !.life = "live", !.Kind = kind, !.Files = files,
                      !.bAutoDelete = (conc = "Asynchronous")]

\* Execute() accepted, pool available: IssueCommand hands the command to the
\* pool and appends it to the queue.  An asynchronous Execute returns
\* Succeeded; a synchronous one enters the loop of ExecuteSynchronousCommand.
ExecuteQueued(kind, files, conc) ==
    /\ mainThread = Idle
    /\ IsEnabled \/ kind = "Connect"
    /\ kind \in Kinds
    /\ FreeIds # {}
    /\ ~RunsInline
    /\ LET c == NextId IN
       /\ Commands' = [Commands EXCEPT ![c] = NewCommand(kind, files, conc)]
       /\ CommandQueue' = Append(CommandQueue, c)
       /\ mainThread' = IF conc = "Synchronous" THEN [pc |-> "sync", cmd |-> c] ELSE Idle
       /\ lastCall' = [NoCall EXCEPT !.op = "Execute", !.conc = conc, !.cmd = c,
                                     !.ret = IF conc = "Synchronous" THEN "none" ELSE "Succeeded"]
    /\ drainRun' = NoRun
    /\ UNCHANGED <<pure, GBackgroundPriorityThreadPool, bGitRepositoryFound, initTask, StateCache,
                   IgnoreForceCache>>

\* Execute() accepted, no pool: IssueCommand runs DoWork, UpdateStates and
\* ReturnResults on the calling thread; the command never enters the queue.
\* ExecuteSynchronousCommand then skips its loop and deletes the command
\* (bAutoDelete is false); an asynchronous command is not deleted.
ExecuteInline(kind, files, conc) ==
    /\ mainThread = Idle
    /\ IsEnabled \/ kind = "Connect"
    /\ kind \in Kinds
    /\ FreeIds # {}
    /\ RunsInline
    /\ \E out \in WorkerExecute(kind, files, StateCache, IsEnabled) :
       LET c == NextId
           worked == DoWork(NewCommand(kind, files, conc), out)
           returned == ReturnResults(worked)
       IN
       /\ StateCache' = WorkerUpdateStates(kind, out.cache, out.States)
       /\ IgnoreForceCache' = WorkerUpdateIgnore(kind, IgnoreForceCache, out.cache, out.States)
       /\ Commands' = [Commands EXCEPT ![c] =
             IF conc = "Synchronous" THEN Freed ELSE returned]
       /\ lastCall' = [NoCall EXCEPT !.op = "Execute", !.conc = conc, !.cmd = c,
                          !.merged = {c}, !.ranWorker = {c}, !.snap = returned,
                          !.called = {<<c, ReturnResultsValue(worked)>>},
                          !.cacheChanged = (StateCache' # StateCache),
                          !.syncReturned = IF conc = "Synchronous" THEN c ELSE NoCmd,
                          !.ret = IF conc = "Synchronous" THEN SynchronousResult(worked)
                                  ELSE ReturnResultsValue(worked)]
    /\ UNCHANGED <<pure, GBackgroundPriorityThreadPool, bGitRepositoryFound, initTask, CommandQueue,
                   mainThread, drainRun>>

\* Pool thread: DoThreadedWork() of a queued command
DoThreadedWork(c) ==
    /\ c \in Range(CommandQueue)
    /\ Commands[c].life = "live"
    /\ ~Commands[c].bExecuteProcessed
    /\ \E out \in WorkerExecute(Commands[c].Kind, Commands[c].Files, StateCache, IsEnabled) :
       /\ Commands' = [Commands EXCEPT ![c] =
                          DoWork(Commands[c], out)]
       /\ StateCache' = out.cache
       /\ lastCall' = [NoCall EXCEPT !.op = "DoThreadedWork", !.thread = "pool", !.cmd = c,
                                     !.ranWorker = {c},
                                     !.cacheChanged = (out.cache # StateCache)]
    /\ UNCHANGED <<pure, GBackgroundPriorityThreadPool, bGitRepositoryFound, initTask, CommandQueue,
                   IgnoreForceCache, mainThread, drainRun>>

\* Pool: Abandon() of a queued command that was never run
Abandon(c) ==
    /\ c \in Range(CommandQueue)
    /\ Commands[c].life = "live"
    /\ ~Commands[c].bExecuteProcessed
    /\ Commands' = [Commands EXCEPT ![c].bExecuteProcessed = TRUE]
    /\ lastCall' = [NoCall EXCEPT !.op = "Abandon", !.thread = "pool", !.cmd = c]
    /\ UNCHANGED <<pure, GBackgroundPriorityThreadPool, bGitRepositoryFound, initTask, CommandQueue,
                   StateCache, IgnoreForceCache, mainThread, drainRun>>

\* CancelOperation(): the first queued command of the operation is cancelled.
\* check(Command.bAutoDelete) stops the program for a command that is not
\* auto-delete.
CancelOperation(c) ==
    /\ c \in Range(CommandQueue)
    /\ Commands[c].bAutoDelete
    /\ Commands' = [Commands EXCEPT ![c].bCancelled = TRUE]
    /\ lastCall' = [NoCall EXCEPT !.op = "CancelOperation", !.cmd = c]
    /\ UNCHANGED <<pure, GBackgroundPriorityThreadPool, bGitRepositoryFound, initTask, CommandQueue,
                   StateCache, IgnoreForceCache, mainThread, drainRun>>

\* Tick() whose loop runs from the back of the queue
TickCommandIndexFromBack(queue, cmds) ==
    LET hits == {i \in 1..Len(queue) :
                    cmds[queue[i]].bExecuteProcessed \/ cmds[queue[i]].bCancelled}
    IN IF hits = {} THEN 0 ELSE CHOOSE i \in hits : \A j \in hits : i >= j

\* Tick() whose loop starts at the second element of the queue
TickCommandIndexFromSecond(queue, cmds) ==
    LET hits == {i \in 2..Len(queue) :
                    cmds[queue[i]].bExecuteProcessed \/ cmds[queue[i]].bCancelled}
    IN IF hits = {} THEN 0 ELSE CHOOSE i \in hits : \A j \in hits : i <= j

\* Tick(): the index at which the loop over CommandQueue stops, 0 if it runs
\* to the end: the first command that is processed or cancelled
TickCommandIndex(queue, cmds) ==
    LET hits == {i \in 1..Len(queue) :
                    cmds[queue[i]].bExecuteProcessed \/ cmds[queue[i]].bCancelled}
    IN IF hits = {} THEN 0 ELSE CHOOSE i \in hits : \A j \in hits : i <= j

\* Tick() without the break: every processed command is removed in one call
QueueAfterTickNoBreak(queue, cmds) ==
    SelectSeq(queue, LAMBDA c : ~cmds[c].bExecuteProcessed)

\* Tick(): the queue after CommandQueue.RemoveAt(CommandIndex) and the break
QueueAfterTick(queue, cmds) ==
    LET i == TickCommandIndex(queue, cmds) IN
    [j \in 1..(Len(queue) - 1) |-> IF j < i THEN queue[j] ELSE queue[j + 1]]

\* Tick() that merges the deltas of successful commands only
TickUpdatesStatesOnSuccess(cmd) == cmd.bCommandSuccessful

\* Tick() that merges the deltas of commands that were not cancelled only
TickUpdatesStatesUnlessCancelled(cmd) == ~IsCanceled(cmd)

\* Tick(): Command.Worker->UpdateStates() is called for the drained command
TickUpdatesStates(cmd) == TRUE

\* Tick() that calls ReturnResults() for a cancelled command too
TickReturnsResultsAlways(cmd) == TRUE

\* Tick() that calls ReturnResults() for successful commands only
TickReturnsResultsOnSuccess(cmd) == ~IsCanceled(cmd) /\ cmd.bCommandSuccessful

\* Tick(): ReturnResults() is called for the drained command
TickReturnsResults(cmd) == ~IsCanceled(cmd)

AllCompleted(queue, cmds) ==
    queue # <<>> /\ \A i \in 1..Len(queue) : cmds[queue[i]].bExecuteProcessed

\* bookkeeping for runs of Tick() over a queue of completed commands
DrainRunAfterTick ==
    IF drainRun # NoRun /\ drainRun.k < drainRun.n
    THEN [drainRun EXCEPT !.k = @ + 1]
    ELSE IF AllCompleted(CommandQueue, Commands)
         THEN [n |-> Len(CommandQueue), k |-> 1] ELSE NoRun

\* the body of Tick()
TickBody ==
    LET i == TickCommandIndex(CommandQueue, Commands) IN
    /\ drainRun' = DrainRunAfterTick
    /\ IF i = 0
       THEN /\ lastCall' = [NoCall EXCEPT !.op = "Tick"]
            /\ UNCHANGED <<CommandQueue, Commands, StateCache, IgnoreForceCache>>
       ELSE LET c == CommandQueue[i]
                cmd == Commands[c]
            IN
            IF cmd.bExecuteProcessed
            THEN LET returned == IF TickReturnsResults(cmd) THEN ReturnResults(cmd) ELSE cmd IN
                 /\ CommandQueue' = QueueAfterTick(CommandQueue, Commands)
                 /\ StateCache' = IF TickUpdatesStates(cmd)
                                  THEN WorkerUpdateStates(cmd.Kind, StateCache, cmd.States)
                                  ELSE StateCache
                 /\ IgnoreForceCache' =
                        IF TickUpdatesStates(cmd)
                        THEN WorkerUpdateIgnore(cmd.Kind, IgnoreForceCache, StateCache, cmd.States)
                        ELSE IgnoreForceCache
                 /\ Commands' = [Commands EXCEPT ![c] =
                        IF cmd.bAutoDelete THEN Freed ELSE returned]
                 /\ lastCall' = [NoCall EXCEPT !.op = "Tick", !.cmd = c, !.snap = returned,
                        !.removed = Range(CommandQueue) \ Range(CommandQueue'),
                        !.merged = IF TickUpdatesStates(cmd) THEN {c} ELSE {},
                        !.called = IF TickReturnsResults(cmd)
                                   THEN {<<c, ReturnResultsValue(cmd)>>} ELSE {},
                        !.cacheChanged = (StateCache' # StateCache),
                        \* bStatesUpdated: OnSourceControlStateChanged.Broadcast()
                        !.broadcast = TickUpdatesStates(cmd)
                                      /\ WorkerUpdateStatesReturns(cmd.Kind, cmd.States)]
            ELSE \* cancelled while its worker has not finished
                 /\ Commands' = [Commands EXCEPT ![c] =
                        ReturnResults([cmd EXCEPT !.bAutoDelete = TRUE])]
                 /\ lastCall' = [NoCall EXCEPT !.op = "Tick", !.cmd = c,
                        !.snap = Commands'[c],
                        !.called = {<<c, ReturnResultsValue(cmd)>>}]
                 /\ UNCHANGED <<CommandQueue, StateCache, IgnoreForceCache>>

\* Tick() called by the host on the owning thread
Tick ==
    /\ mainThread = Idle
    /\ TickBody
    /\ UNCHANGED <<pure, GBackgroundPriorityThreadPool, bGitRepositoryFound, initTask, mainThread>>

\* ExecuteSynchronousCommand waiting for the worker instead of the queue
SyncLoopUntilProcessed(c) == ~IsCanceled(Commands[c]) /\ ~Commands[c].bExecuteProcessed

\* ExecuteSynchronousCommand: the condition of the wait loop
SyncLoopContinues(c) == ~IsCanceled(Commands[c]) /\ c \in Range(CommandQueue)

\* ExecuteSynchronousCommand: one iteration of the wait loop
SyncLoopTick ==
    /\ mainThread.pc = "sync"
    /\ SyncLoopContinues(mainThread.cmd)
    /\ TickBody
    /\ UNCHANGED <<pure, GBackgroundPriorityThreadPool, bGitRepositoryFound, initTask, mainThread>>

\* ExecuteSynchronousCommand: the loop is left, the result is computed, the
\* command is deleted unless it is auto-delete, and Execute returns
SyncReturn ==
    /\ mainThread.pc = "sync"
    /\ ~SyncLoopContinues(mainThread.cmd)
    /\ LET c == mainThread.cmd IN
       /\ Commands' = [Commands EXCEPT ![c] = IF Commands[c].bAutoDelete THEN @ ELSE Freed]
       /\ lastCall' = [NoCall EXCEPT !.op = "Execute", !.conc = "Synchronous", !.cmd = c,
                                     !.syncReturned = c, !.snap = Commands[c],
                                     !.ret = SynchronousResult(Commands[c])]
    /\ mainThread' = Idle
    /\ UNCHANGED <<pure, GBackgroundPriorityThreadPool, bGitRepositoryFound, initTask, CommandQueue,
                   StateCache, IgnoreForceCache, drainRun>>

Concurrencies == {"Synchronous", "Asynchronous"}
\* the file lists the model submits
FileSets == {FileIds}

Next ==
    \/ InitSuccess
    \/ InitError
    \/ \E kind \in Kinds \cup {Unsupported}, conc \in Concurrencies : ExecuteRejected(kind, conc)
    \/ \E kind \in Kinds, files \in FileSets, conc \in Concurrencies :
          ExecuteQueued(kind, files, conc)
    \/ \E kind \in Kinds, files \in FileSets, conc \in Concurrencies :
          ExecuteInline(kind, files, conc)
    \/ \E c \in CmdIds : DoThreadedWork(c)
    \/ \E c \in CmdIds : Abandon(c)
    \/ \E c \in CmdIds : CancelOperation(c)
    \/ Tick
    \/ SyncLoopTick
    \/ SyncReturn

Spec == Init /\ [][Next]_vars

\* the host keeps calling Tick(): on its own between two calls of Execute(),
\* from the wait loop during a synchronous Execute()
TickSpec == Spec /\ WF_vars(Tick \/ SyncLoopTick \/ SyncReturn)

(***************************************************************************)
(* The lock-class workers (CheckOut, MarkForAdd, Delete, Copy) on a batch  *)
(* of files, from the lock request to the merge of their deltas            *)
(***************************************************************************)
LockFileIds == 1..MaxLockFiles
LockKinds == {"CheckOut", "MarkForAdd", "Delete", "Copy"}
\* the reasons the backend gives for a failure
Reasons == {"locked by another user", "not found"}

\* FLockResponse.Batch.Failures for a request of the files InFiles: every
\* failed file is reported once
FailureLists(InFiles) ==
    { fl \in UNION { [1..n -> [Path : InFiles, Reason : Reasons]] :
                        n \in 0..Cardinality(InFiles) } :
        \A i, j \in DOMAIN fl : fl[i].Path = fl[j].Path => i = j }

\* the answers to a lock request: a response that cannot be parsed (no
\* response, HTTP error, bad JSON), or a parsed one with its failures
LockResponses(InFiles) ==
    { [parsed |-> FALSE, Failures |-> <<>>] } \cup
    { [parsed |-> TRUE, Failures |-> fl] : fl \in FailureLists(InFiles) }

\* the message RequestLockOperation formats for a failure
FailMsg(OperationName, Failure) ==
    [Operation |-> OperationName, Path |-> Failure.Path, Reason |-> Failure.Reason]

\* RequestLockOperation that reports a batch with failures by one message
RequestLockOperationOneMessage(OperationName, Response) ==
    IF Response.parsed
    THEN [ok |-> Len(Response.Failures) = 0,
          FailedFiles |-> {Response.Failures[i].Path : i \in DOMAIN Response.Failures},
          FailureMessages |->
             IF Len(Response.Failures) = 0 THEN <<>>
             ELSE <<FailMsg(OperationName, Response.Failures[1])>>]
    ELSE [ok |-> TRUE, FailedFiles |-> {}, FailureMessages |-> <<>>]

\* RequestLockOperation: the returned bool, OutFailedFiles, OutFailureMessages
RequestLockOperation(OperationName, Response) ==
    IF Response.parsed
    THEN [ok |-> Len(Response.Failures) = 0,
          FailedFiles |-> {Response.Failures[i].Path : i \in DOMAIN Response.Failures},
          FailureMessages |->
             [i \in DOMAIN Response.Failures |-> FailMsg(OperationName, Response.Failures[i])]]
    ELSE [ok |-> TRUE, FailedFiles |-> {}, FailureMessages |-> <<>>]

\* CollectNewStates(InFiles, OutResults, FileState, TreeState, LockState,
\* RemoteState): FindOrAdd, then every axis that is not Unset is overwritten
CollectNewStates(InFiles, OutResults, FileState, TreeState, LockState, RemoteState) ==
    [f \in DOMAIN OutResults \cup InFiles |->
        IF f \notin InFiles THEN OutResults[f]
        ELSE LET Old == IF f \in DOMAIN OutResults THEN OutResults[f]
                        ELSE [FileState |-> FileState, TreeState |-> TreeState,
                              LockState |-> LockState, LockUser |-> "",
                              RemoteState |-> RemoteState, HeadBranch |-> ""]
             IN [Old EXCEPT
                   !.FileState = IF FileState # "Unset" THEN FileState ELSE @,
                   !.TreeState = IF TreeState # "Unset" THEN TreeState ELSE @,
                   !.LockState = IF LockState # "Unset" THEN LockState ELSE @,
                   !.RemoteState = IF RemoteState # "Unset" THEN RemoteState ELSE @]]

\* LockFiles(PathToGitRoot, Files, States, ErrorMessages) of the workers:
\* Lockable are the files for which IsFileLFSLockable holds
LockFiles(Files, Lockable, Response, States) ==
    LET LockableFiles == Files \cap Lockable IN
    IF LockableFiles = {}
    THEN [ok |-> TRUE, States |-> States, ErrorMessages |-> <<>>]
    ELSE LET r == RequestLockOperation("lock", Response)
             SucceededFiles == LockableFiles \ r.FailedFiles
             Collected == CollectNewStates(SucceededFiles, States,
                                           "Unset", "Unset", "Locked", "Unset")
         IN [ok |-> r.ok,
             States |-> IF r.ok
                        THEN [f \in DOMAIN Collected |->
                                 [Collected[f] EXCEPT !.LockUser = "me"]]
                        ELSE States,
             ErrorMessages |-> r.FailureMessages]

\* Execute of a lock-class worker: the returned bool, the worker's States
\* and the command's ResultInfo.ErrorMessages.  bDidDelete: the files could
\* be deleted from disk (Delete only).
LockWorkerExecute(Kind, Files, Lockable, Response, bDidDelete) ==
    LET locked == LockFiles(Files, Lockable, Response, EmptyStates) IN
    CASE Kind \in {"CheckOut", "MarkForAdd"} -> locked
      [] Kind = "Copy" -> [locked EXCEPT !.ok = TRUE]
      [] Kind = "Delete" ->
            IF Files = {} \/ ~locked.ok THEN locked
            ELSE [locked EXCEPT
                    !.ok = bDidDelete,
                    !.States = CollectNewStates(Files, locked.States,
                                                "Deleted", "Unset", "Unset", "Unset")]

\* FFriendshipperDeleteWorker::Execute: the files IFileManager::Delete has
\* removed from disk.  The loop over the files is reached when LockFiles
\* returned true.
DeletedFromDisk(Files, Lockable, Response, bDidDelete) ==
    IF Files # {} /\ LockFiles(Files, Lockable, Response, EmptyStates).ok /\ bDidDelete
    THEN Files ELSE {}

\* what the cache holds for a file before the command
LockCacheSamples ==
    { NoEntry,
      [FileState |-> "Unknown", TreeState |-> "Unmodified", LockState |-> "NotLocked",
       LockUser |-> "", RemoteState |-> "UpToDate", HeadBranch |-> "", TimeStamp |-> "Now"],
      [FileState |-> "Unknown", TreeState |-> "Working", LockState |-> "LockedOther",
       LockUser |-> "other", RemoteState |-> "Unset", HeadBranch |-> "", TimeStamp |-> "Now"] }

NoLockResult == [ok |-> FALSE, States |-> EmptyStates, ErrorMessages |-> <<>>]

LockInit ==
    /\ ProviderInit
    /\ GBackgroundPriorityThreadPool
    /\ \E Kind \in LockKinds, Files \in SUBSET LockFileIds, Lockable \in SUBSET LockFileIds,
          bDidDelete \in BOOLEAN, Cache \in [LockFileIds -> LockCacheSamples] :
         /\ Lockable \subseteq Files
         /\ Kind = "Copy" => Cardinality(Files) = 1
         /\ Kind # "Delete" => bDidDelete
         /\ \E Response \in LockResponses(Lockable) :
               pure = [stage |-> "lock0", Kind |-> Kind, Files |-> Files,
                       Lockable |-> Lockable, Response |-> Response,
                       bDidDelete |-> bDidDelete, Cache |-> Cache,
                       Result |-> NoLockResult, Out |-> Cache]

\* the worker's Execute, on a pool thread
LockExecute ==
    /\ pure.stage = "lock0"
    /\ pure' = [pure EXCEPT !.stage = "lock1",
                   !.Result = LockWorkerExecute(pure.Kind, pure.Files, pure.Lockable,
                                                pure.Response, pure.bDidDelete)]
    /\ UNCHANGED providerVars

\* the Tick() that drains the command: Worker->UpdateStates()
LockDrain ==
    /\ pure.stage = "lock1"
    /\ pure' = [pure EXCEPT !.stage = "lock2",
                   !.Out = UpdateCachedStates(pure.Cache, pure.Result.States)]
    /\ UNCHANGED providerVars

LockNext == LockExecute \/ LockDrain

LockSpec == LockInit /\ [][LockNext]_vars

(***************************************************************************)
(* The merge of one delta into one cached entry, on its own                *)
(***************************************************************************)
MergeInit ==
    /\ ProviderInit
    /\ GBackgroundPriorityThreadPool
    /\ pure \in [stage : {"merge0"}, S : CachedStates, D : Deltas,
                  Out : {NoEntry}, Out2 : {NoEntry}]

\* UpdateCachedStates({file -> D}) on a cache that holds S for the file
MergeOnce ==
    /\ pure.stage = "merge0"
    /\ pure' = [pure EXCEPT !.stage = "merge1", !.Out = UpdateCachedState(pure.S, pure.D)]
    /\ UNCHANGED providerVars

\* UpdateCachedStates({file -> D}) once more
MergeTwice ==
    /\ pure.stage = "merge1"
    /\ pure' = [pure EXCEPT !.stage = "merge2", !.Out2 = UpdateCachedState(pure.Out, pure.D)]
    /\ UNCHANGED providerVars

MergeNext == MergeOnce \/ MergeTwice

MergeSpec == MergeInit /\ [][MergeNext]_vars

(***************************************************************************)
(* Two queued commands on the same files                                   *)
(***************************************************************************)
RaceKinds == {"CheckIn", "Delete", "CheckOut"}

\* what RunUpdateStatus reports for a file (ParseFileStatusResult,
\* CheckRemote): listed as modified and present on disk, FileState is left
\* Unset; not listed and missing from disk
RaceStatusSamples ==
    { [FileState |-> "Unset", TreeState |-> "Working", LockState |-> "Locked",
       LockUser |-> "me", RemoteState |-> "NotAtHead", HeadBranch |-> "origin"],
      [FileState |-> "Unknown", TreeState |-> "NotInRepo", LockState |-> "NotLocked",
       LockUser |-> "", RemoteState |-> "NotAtHead", HeadBranch |-> "origin"] }

\* what the cache holds for a file when the two commands are submitted
RaceCacheSamples ==
    { NoEntry,
      [FileState |-> "Deleted", TreeState |-> "Unmodified", LockState |-> "Locked",
       LockUser |-> "me", RemoteState |-> "UpToDate", HeadBranch |-> "", TimeStamp |-> "Now"],
      [FileState |-> "Unknown", TreeState |-> "Working", LockState |-> "NotLocked",
       LockUser |-> "", RemoteState |-> "NotLatest", HeadBranch |-> "release",
       TimeStamp |-> "Now"] }

\* The outcomes of Worker->Execute(Command) of the CheckIn, Delete and
\* CheckOut workers
RaceWorkerExecute(kind, files, cache, enabled) ==
    CASE kind = "CheckIn" ->
            CheckInExecute(files, cache, enabled)
            \cup
            { [ok |-> TRUE, errs |-> 0, States |-> [f \in files |-> d],
               cache |-> CheckInCache(cache, files, enabled)] : d \in RaceStatusSamples }
      [] kind = "Delete" -> DeleteExecute(files, cache)
      [] kind = "CheckOut" ->
            { LET r == LockWorkerExecute("CheckOut", files, files, Response, TRUE) IN
              [ok |-> r.ok, errs |-> IF r.ErrorMessages = <<>> THEN 0 ELSE 1,
               States |-> r.States, cache |-> cache] : Response \in LockResponses(files) }

NoRace == [stage |-> "race", Drained |-> <<>>, Dropped |-> FALSE]

\* the provider is enabled and has a pool; two asynchronous commands on the
\* same files are in the queue, in the order of their submission
RaceInit ==
    /\ GBackgroundPriorityThreadPool = TRUE
    /\ bGitRepositoryFound = TRUE
    /\ initTask = "done"
    /\ \E k1 \in RaceKinds, k2 \in RaceKinds :
         Commands = [c \in CmdIds |->
                        IF c = 1 THEN NewCommand(k1, FileIds, "Asynchronous")
                        ELSE IF c = 2 THEN NewCommand(k2, FileIds, "Asynchronous")
                        ELSE NoCommand]
    /\ CommandQueue = <<1, 2>>
    /\ StateCache \in [FileIds -> RaceCacheSamples]
    /\ IgnoreForceCache = [f \in FileIds |-> 0]
    /\ mainThread = Idle
    /\ drainRun = NoRun
    /\ lastCall = NoCall
    /\ pure = NoRace

\* Pool thread: DoThreadedWork() of a queued command.  Dropped records
\* that Execute removed an entry from the cache after the first drain.
RaceDoThreadedWork(c) ==
    /\ c \in Range(CommandQueue)
    /\ Commands[c].life = "live"
    /\ ~Commands[c].bExecuteProcessed
    /\ \E out \in RaceWorkerExecute(Commands[c].Kind, Commands[c].Files, StateCache, IsEnabled) :
       /\ Commands' = [Commands EXCEPT ![c] = DoWork(Commands[c], out)]
       /\ StateCache' = out.cache
       /\ lastCall' = [NoCall EXCEPT !.op = "DoThreadedWork", !.thread = "pool", !.cmd = c,
                                     !.ranWorker = {c},
                                     !.cacheChanged = (out.cache # StateCache)]
       /\ pure' = [pure EXCEPT !.Dropped = @ \/ (pure.Drained # <<>> /\ out.cache # StateCache)]
    /\ UNCHANGED <<GBackgroundPriorityThreadPool, bGitRepositoryFound, initTask, CommandQueue,
                   IgnoreForceCache, mainThread, drainRun>>

\* Tick() called by the host; Drained records, for each command removed
\* from the queue, its deltas and the cache before and after
RaceTick ==
    /\ mainThread = Idle
    /\ TickBody
    /\ pure' = IF lastCall'.removed = {} THEN pure
               ELSE [pure EXCEPT !.Drained =
                        Append(@, [cmd |-> lastCall'.cmd,
                                   States |-> Commands[lastCall'.cmd].States,
                                   before |-> StateCache, after |-> StateCache'])]
    /\ UNCHANGED <<GBackgroundPriorityThreadPool, bGitRepositoryFound, initTask, mainThread>>

RaceNext ==
    \/ \E c \in CmdIds : RaceDoThreadedWork(c)
    \/ RaceTick

RaceSpec == RaceInit /\ [][RaceNext]_vars

(***************************************************************************)
(* A CheckIn of two files                                                  *)
(***************************************************************************)
CheckInFiles == {"X", "Y"}

\* what the cache holds for a file before the CheckIn: marked Deleted by a
\* Delete command, modified in the working tree, or not cached
CheckInCacheSamples ==
    { NoEntry,
      [FileState |-> "Deleted", TreeState |-> "Unmodified", LockState |-> "Locked",
       LockUser |-> "me", RemoteState |-> "UpToDate", HeadBranch |-> "", TimeStamp |-> "Now"],
      [FileState |-> "Unknown", TreeState |-> "Working", LockState |-> "Locked",
       LockUser |-> "me", RemoteState |-> "UpToDate", HeadBranch |-> "", TimeStamp |-> "Now"] }

\* RunUpdateStatus(Files): ParseFileStatusResult reports a state for every
\* file of the command
CheckInStatus(files) == [files -> RaceStatusSamples \cup StatusSamples]

\* FFriendshipperCheckInWorker::Execute on the files
CheckInOutcomes(files, cache) ==
    \* Client.Submit failed
    { [ok |-> FALSE, States |-> EmptyStates, cache |-> cache] }
    \cup
    \* submitted; Client.GetStatus failed
    { [ok |-> TRUE, States |-> EmptyStates, cache |-> CheckInCache(cache, files, TRUE)] }
    \cup
    \* submitted; the status of the files was fetched again
    { [ok |-> TRUE, States |-> st, cache |-> CheckInCache(cache, files, TRUE)] :
        st \in CheckInStatus(files) }

CheckInInit ==
    /\ ProviderInit
    /\ GBackgroundPriorityThreadPool
    /\ pure \in [stage : {"checkin0"}, Before : [CheckInFiles -> CheckInCacheSamples],
                  ok : {FALSE}, States : {EmptyStates},
                  Executed : {[f \in CheckInFiles |-> NoEntry]},
                  After : {[f \in CheckInFiles |-> NoEntry]}]

\* DoWork(): Worker->Execute of the CheckIn command on its two files
CheckInRun ==
    /\ pure.stage = "checkin0"
    /\ \E out \in CheckInOutcomes(CheckInFiles, pure.Before) :
         pure' = [pure EXCEPT !.stage = "checkin1", !.ok = out.ok, !.States = out.States,
                              !.Executed = out.cache]
    /\ UNCHANGED providerVars

\* Tick(): Worker->UpdateStates() of the processed command
CheckInDrain ==
    /\ pure.stage = "checkin1"
    /\ pure' = [pure EXCEPT !.stage = "checkin2",
                            !.After = UpdateCachedStates(pure.Executed, pure.States)]
    /\ UNCHANGED providerVars

CheckInNext == CheckInRun \/ CheckInDrain

CheckInSpec == CheckInInit /\ [][CheckInNext]_vars

(***************************************************************************)
(* FFriendshipperRevertWorker                                              *)
(***************************************************************************)
\* the attempts of the checkout loop
RevertAttempts == 10

\* the two Execute bodies of the Revert worker in the sources: one sends a
\* revert request to the backend, the other runs git commands
RevertVersions == {"ClientRevert", "GitCheckout"}

\* the restore step fails Fails times, then succeeds: outcome of call n
RestoreSucceeds(n, Fails) == n > Fails

\* a loop that makes one attempt
CheckoutLoopOnce(Attempts, Made, Fails) ==
    [CheckoutSuccess |-> RestoreSucceeds(Made + 1, Fails), Calls |-> Made + 1,
     Sleeps |-> IF RestoreSucceeds(Made + 1, Fails) THEN Made ELSE Made + 1]

\* while (Attempts-- > 0) { CheckoutSuccess = RunCommand("checkout");
\*   if (CheckoutSuccess) break; Sleep(0.1f); }
\* Made counts the calls so far, each of them failed and was followed by a sleep
RECURSIVE CheckoutLoop(_, _, _)
CheckoutLoop(Attempts, Made, Fails) ==
    IF Attempts > 0
    THEN IF RestoreSucceeds(Made + 1, Fails)
         THEN [CheckoutSuccess |-> TRUE, Calls |-> Made + 1, Sleeps |-> Made]
         ELSE CheckoutLoop(Attempts - 1, Made + 1, Fails)
    ELSE [CheckoutSuccess |-> FALSE, Calls |-> Made, Sleeps |-> Made]

NoRevertResult ==
    [ok |-> FALSE, Calls |-> 0, Sleeps |-> 0, UnlockCalled |-> FALSE, StatusCalled |-> FALSE]

\* Execute that sends the revert request: Client.Revert(RelativePaths), then
\* the asset registry scan
ClientRevertExecute(in) ==
    [NoRevertResult EXCEPT !.ok = RestoreSucceeds(1, in.Fails), !.Calls = 1]

\* Execute that runs git: reset and clean for a revert of everything, else
\* rm, reset and the checkout loop by category of file; then the unlock of
\* the locked files, the status of the files and the asset registry scan
GitCheckoutExecute(in) ==
    LET loop == CheckoutLoop(RevertAttempts, 0, in.Fails)
        checkout == ~in.bRevertAll /\ in.Other
        bSuccess ==
            IF in.bRevertAll THEN in.ResetOk /\ in.CleanOk
            ELSE /\ (in.Missing => in.RmOk)
                 /\ (in.Existing => in.ResetOk)
                 /\ (in.Other => loop.CheckoutSuccess)
        run == [NoRevertResult EXCEPT !.Calls = IF checkout THEN loop.Calls ELSE 0,
                                      !.Sleeps = IF checkout THEN loop.Sleeps ELSE 0,
                                      !.UnlockCalled = in.Locked]
    IN  IF in.Locked /\ ~in.UnlockOk
        THEN run
        ELSE [run EXCEPT !.ok = bSuccess, !.StatusCalled = TRUE]

RevertExecute(in) ==
    IF in.Version = "ClientRevert" THEN ClientRevertExecute(in) ELSE GitCheckoutExecute(in)

\* a Revert command: the categories its files fall into, whether some are
\* cached as locked, and what the calls it makes will answer
RevertInputs ==
    { in \in [Version : RevertVersions, bRevertAll : BOOLEAN,
              Missing : BOOLEAN, Existing : BOOLEAN, Other : BOOLEAN, Locked : BOOLEAN,
              RmOk : BOOLEAN, ResetOk : BOOLEAN, CleanOk : BOOLEAN, UnlockOk : BOOLEAN,
              Fails : 0..MaxRestoreFailures] :
        \* without files there is no category and no locked file
        /\ in.bRevertAll => ~in.Missing /\ ~in.Existing /\ ~in.Other /\ ~in.Locked
        \* files that are neither added nor missing are among the existing files
        /\ in.Other => in.Existing
        /\ ~in.bRevertAll => in.Missing \/ in.Existing }

RevertInit ==
    /\ ProviderInit
    /\ GBackgroundPriorityThreadPool
    /\ pure \in [stage : {"revert0"}, In : RevertInputs, Result : {NoRevertResult}]

\* DoWork(): Worker->Execute of the Revert command
RevertRun ==
    /\ pure.stage = "revert0"
    /\ pure' = [pure EXCEPT !.stage = "revert1", !.Result = RevertExecute(pure.In)]
    /\ UNCHANGED providerVars

RevertNext == RevertRun

RevertSpec == RevertInit /\ [][RevertNext]_vars

(***************************************************************************)
(* The provider while the backend is unreachable                           *)
(***************************************************************************)
\* the operations the host submits besides the runner's Fetch
\* one more remote request was sent (and got no response)
Requested(n) == Min2(n + 1, MaxRequests)

\* Execute of the Connect worker: CheckSystemStatus gets no response, the
\* command fails with the "Unable to connect" message.  Execute of CheckOut:
\* the lock request gets no usable response, LockFiles returns true.
UnreachableResult(kind) ==
    IF kind = "Connect" THEN "Failed"
    ELSE IF LockFiles({1}, {1}, [parsed |-> FALSE, Failures |-> <<>>], EmptyStates).ok
         THEN "Succeeded" ELSE "Failed"

ConnInit ==
    /\ ProviderInit
    /\ GBackgroundPriorityThreadPool
    /\ pure = [stage |-> "conn", initTask |-> "pending", bGitRepositoryFound |-> FALSE,
               Runner |-> FALSE, bRefreshSpawned |-> FALSE, Fetch |-> "none",
               Op |-> "none", OpKind |-> "none", OpResult |-> "none", Requests |-> 0,
               CommandQueue |-> <<>>]

\* CheckRepositoryStatus: ConditionalRepoInit succeeded (RunUpdateStatus sent
\* the status request and returned true without it); SuccessFunc creates the
\* runner and enables the provider
ConnInitSuccess ==
    /\ pure.initTask = "pending"
    /\ pure' = [pure EXCEPT !.initTask = "done", !.bGitRepositoryFound = TRUE,
                            !.Runner = TRUE, !.Requests = Requested(@)]
    /\ UNCHANGED providerVars

\* CheckRepositoryStatus: ConditionalRepoInit failed; ErrorFunc
ConnInitError ==
    /\ pure.initTask = "pending"
    /\ pure' = [pure EXCEPT !.initTask = "done", !.bGitRepositoryFound = FALSE]
    /\ UNCHANGED providerVars

\* FFriendshipperSourceControlRunner::Run after its wait: no refresh is in
\* flight, so Provider.Execute(Fetch, Asynchronous) is called; the refresh
\* stays marked as spawned if Execute returned Succeeded
RunnerRun ==
    /\ pure.Runner
    /\ ~pure.bRefreshSpawned
    /\ pure' = IF pure.bGitRepositoryFound
               THEN [pure EXCEPT !.bRefreshSpawned = TRUE, !.Fetch = "queued",
                                 !.CommandQueue = Append(@, "Fetch")]
               ELSE pure
    /\ pure' # pure
    /\ UNCHANGED providerVars

\* FFriendshipperFetchWorker::Execute: Client.GetStatus fails, States stay
\* empty, Execute returns true
FetchExecute ==
    /\ pure.Fetch = "queued"
    /\ pure' = [pure EXCEPT !.Fetch = "processed", !.Requests = Requested(@)]
    /\ UNCHANGED providerVars

\* Execute() of the host: rejected with Failed when the provider is not
\* enabled and the operation is not Connect, else queued
HostExecute(kind) ==
    /\ pure.initTask = "done"
    /\ pure.Op = "none"
    /\ pure' = IF ~pure.bGitRepositoryFound /\ kind # "Connect"
               THEN [pure EXCEPT !.OpKind = kind, !.OpResult = "Failed"]
               ELSE [pure EXCEPT !.Op = "queued", !.OpKind = kind, !.OpResult = "none",
                                 !.CommandQueue = Append(@, "Op")]
    /\ pure' # pure
    /\ UNCHANGED providerVars

\* the worker of the host's command, on a pool thread
HostWorkerExecute ==
    /\ pure.Op = "queued"
    /\ pure' = [pure EXCEPT !.Op = "processed", !.OpResult = UnreachableResult(pure.OpKind),
                            !.Requests = Requested(@)]
    /\ UNCHANGED providerVars

\* the command at position i of the queue has been processed by its worker
ConnProcessed(i) ==
    IF pure.CommandQueue[i] = "Fetch" THEN pure.Fetch = "processed"
    ELSE pure.Op = "processed"

\* Tick(): the first processed command of the queue is removed and its
\* completion delegate is called; the runner's delegate clears bRefreshSpawned
ConnTick ==
    /\ \E i \in DOMAIN pure.CommandQueue :
          /\ ConnProcessed(i)
          /\ \A j \in 1..(i - 1) : ~ConnProcessed(j)
          /\ pure' = IF pure.CommandQueue[i] = "Fetch"
                     THEN [pure EXCEPT !.Fetch = "none", !.bRefreshSpawned = FALSE,
                                       !.CommandQueue = SelectSeq(@, LAMBDA c : c # "Fetch")]
                     ELSE [pure EXCEPT !.Op = "none",
                                       !.CommandQueue = SelectSeq(@, LAMBDA c : c # "Op")]
    /\ UNCHANGED providerVars

ConnNext ==
    \/ ConnInitSuccess
    \/ ConnInitError
    \/ RunnerRun
    \/ FetchExecute
    \/ \E kind \in {"Connect", "CheckOut"} : HostExecute(kind)
    \/ HostWorkerExecute
    \/ ConnTick

\* the pool runs queued workers, the host keeps calling Tick(), the runner's
\* thread keeps running
ConnSpec ==
    /\ ConnInit
    /\ [][ConnNext]_vars
    /\ WF_vars(ConnInitSuccess \/ ConnInitError)
    /\ WF_vars(RunnerRun)
    /\ WF_vars(FetchExecute)
    /\ WF_vars(HostWorkerExecute)
    /\ WF_vars(ConnTick)

(***************************************************************************)
(* IgnoreForceCache as the array it is: merges that append to it and       *)
(* GetState(ForceUpdate) that removes from it                              *)
(***************************************************************************)
\* the files of this part, in the order a merge visits them
IgnoreFileOrder == <<"F", "G">>
IgnoreFileIds == Range(IgnoreFileOrder)

\* the file lists GetState is called with (a TArray: order and repetition)
IgnoreFileLists == UNION {[1..n -> IgnoreFileIds] : n \in 1..Len(IgnoreFileOrder)}

\* the deltas the merges of this part apply: the one of a status update and
\* the one of MarkForAdd (which the merge skips for a file that cannot be
\* added)
IgnoreDeltaSamples ==
    StatusSamples \cup
    { [FileState |-> "Added", TreeState |-> "Unset", LockState |-> "Unset",
       LockUser |-> "", RemoteState |-> "Unset", HeadBranch |-> ""] }

\* the files of InResults the loop of UpdateCachedStates does not skip
MergedFiles(cache, InResults) ==
    {f \in DOMAIN InResults : ~InvalidTransition(GetStateInternal(cache, f), InResults[f])}

\* Provider.AddFileToIgnoreForceCache for every merged file of one
\* UpdateCachedStates: IgnoreForceCache.Add(Filename) appends to the array
IgnoreForceCacheAdd(ignore, files) ==
    ignore \o SelectSeq(IgnoreFileOrder, LAMBDA f : f \in files)

\* RemoveFileFromIgnoreForceCache that removes one entry of the file
IgnoreForceCacheRemoveSingle(ignore, f) ==
    IF f \notin Range(ignore) THEN ignore
    ELSE LET i == CHOOSE k \in 1..Len(ignore) :
                     ignore[k] = f /\ \A j \in 1..(k - 1) : ignore[j] # f
         IN [k \in 1..(Len(ignore) - 1) |-> IF k < i THEN ignore[k] ELSE ignore[k + 1]]

\* RemoveFileFromIgnoreForceCache: IgnoreForceCache.Remove(Filename) removes
\* every entry equal to the file
IgnoreForceCacheRemove(ignore, f) == SelectSeq(ignore, LAMBDA x : x # f)

\* GetState(ForceUpdate): the loop over InFiles from position i on; a file
\* with an entry loses it, a file without one goes to ForceUpdate
RECURSIVE ForceUpdateLoop(_, _, _, _)
ForceUpdateLoop(InFiles, i, ignore, ForceUpdate) ==
    IF i > Len(InFiles) THEN [ignore |-> ignore, ForceUpdate |-> ForceUpdate]
    ELSE IF InFiles[i] \in Range(ignore)
         THEN ForceUpdateLoop(InFiles, i + 1, IgnoreForceCacheRemove(ignore, InFiles[i]),
                              ForceUpdate)
         ELSE ForceUpdateLoop(InFiles, i + 1, ignore, Append(ForceUpdate, InFiles[i]))

\* GetState: GetStateInternal caches an entry for every file of the list
CacheAfterGetState(cache, files) ==
    [f \in DOMAIN cache |-> IF f \in files THEN GetStateInternal(cache, f) ELSE cache[f]]

NoIgnoreCall ==
    [op |-> "none", InFiles |-> <<>>, Merged |-> {}, ForceUpdate |-> <<>>,
     Before |-> <<>>]

IgnoreInit ==
    /\ ProviderInit
    /\ GBackgroundPriorityThreadPool
    /\ pure = [stage |-> "ignore",
               Cache |-> [f \in IgnoreFileIds |-> NoEntry],
               IgnoreForceCache |-> <<>>,
               \* per file: what happened to it last ("merged": a merge updated
               \* it; "skipped": a forced refresh skipped it; "none")
               Phase |-> [f \in IgnoreFileIds |-> "none"],
               PhaseBefore |-> [f \in IgnoreFileIds |-> "none"],
               Call |-> NoIgnoreCall]

\* a merge of the deltas InResults (Tick() draining a command, or the init
\* task): UpdateCachedStates
IgnoreMerge(InResults) ==
    LET merged == MergedFiles(pure.Cache, InResults)
        ignore == IgnoreForceCacheAdd(pure.IgnoreForceCache, merged)
    IN
    /\ pure.stage = "ignore"
    /\ Len(ignore) <= MaxIgnoreEntries
    /\ pure' = [pure EXCEPT
                  !.Cache = UpdateCachedStates(pure.Cache, InResults),
                  !.IgnoreForceCache = ignore,
                  !.PhaseBefore = pure.Phase,
                  !.Phase = [f \in IgnoreFileIds |->
                                IF f \in merged THEN "merged" ELSE pure.Phase[f]],
                  !.Call = [NoIgnoreCall EXCEPT !.op = "Merge", !.Merged = merged,
                                                !.Before = pure.IgnoreForceCache]]
    /\ UNCHANGED providerVars

\* GetState(InFiles, ForceUpdate): the entries of InFiles are removed from
\* IgnoreForceCache; Execute(UpdateStatus, ForceUpdate) runs synchronously
\* for the files that had none, and the drain of that command merges the
\* status it got (bStatus: the worker left a state for each of its files);
\* then GetStateInternal for every file
GetStateForceUpdate(InFiles, bStatus) ==
    LET loop == ForceUpdateLoop(InFiles, 1, pure.IgnoreForceCache, <<>>)
        files == Range(loop.ForceUpdate)
    IN
    /\ pure.stage = "ignore"
    /\ bStatus => files # {}
    /\ \E InResults \in IF bStatus THEN [files -> StatusSamples] ELSE {EmptyStates} :
       LET merged == MergedFiles(pure.Cache, InResults)
           ignore == IgnoreForceCacheAdd(loop.ignore, merged)
           cache == UpdateCachedStates(pure.Cache, InResults)
       IN
       /\ Len(ignore) <= MaxIgnoreEntries
       /\ pure' = [pure EXCEPT
                     !.Cache = CacheAfterGetState(cache, Range(InFiles)),
                     !.IgnoreForceCache = ignore,
                     !.PhaseBefore = pure.Phase,
                     !.Phase = [f \in IgnoreFileIds |->
                                   IF f \in merged THEN "merged"
                                   ELSE IF f \in files THEN "none"
                                   ELSE IF f \in Range(InFiles) THEN "skipped"
                                   ELSE pure.Phase[f]],
                     !.Call = [NoIgnoreCall EXCEPT !.op = "ForceUpdate", !.InFiles = InFiles,
                                                   !.Merged = merged,
                                                   !.ForceUpdate = loop.ForceUpdate,
                                                   !.Before = pure.IgnoreForceCache]]
    /\ UNCHANGED providerVars

\* GetState(InFiles, Use): GetStateInternal for every file
GetStateUse(InFiles) ==
    /\ pure.stage = "ignore"
    /\ pure' = [pure EXCEPT
                  !.Cache = CacheAfterGetState(pure.Cache, Range(InFiles)),
                  !.PhaseBefore = pure.Phase,
                  !.Call = [NoIgnoreCall EXCEPT !.op = "Use", !.InFiles = InFiles,
                                                !.Before = pure.IgnoreForceCache]]
    /\ UNCHANGED providerVars

IgnoreNext ==
    \/ \E files \in SUBSET IgnoreFileIds \ {{}} :
          \E InResults \in [files -> IgnoreDeltaSamples] : IgnoreMerge(InResults)
    \/ \E InFiles \in IgnoreFileLists, bStatus \in BOOLEAN : GetStateForceUpdate(InFiles, bStatus)
    \/ \E InFiles \in IgnoreFileLists : GetStateUse(InFiles)

IgnoreSpec == IgnoreInit /\ [][IgnoreNext]_vars

(***************************************************************************)
(* FFriendshipperSourceControlRunner: the thread of the periodic refresh   *)
(* and the owning thread, statement by statement                           *)
(***************************************************************************)
\* Run() that submits a refresh in every cycle
RunnerSpawnsAlways(bRefreshSpawned) == TRUE

\* Run(): if (!bRefreshSpawned)
RunnerSpawns(bRefreshSpawned) == ~bRefreshSpawned

\* Run(): bRefreshSpawned = Result == ECommandResult::Succeeded
RefreshStillSpawned(Result) == Result = "Succeeded"

RunnerInit ==
    /\ ProviderInit
    /\ pure = [stage |-> "runner", pc |-> "wait", bRefreshSpawned |-> FALSE, Task |-> "none",
               ExecuteResult |-> "none", Result |-> "none", Refreshes |-> <<>>]

\* Run(): StopEvent->Wait(30000) returns and bRefreshSpawned is read
RunnerWait ==
    /\ pure.stage = "runner"
    /\ pure.pc = "wait"
    /\ pure' = [pure EXCEPT !.pc = IF RunnerSpawns(pure.bRefreshSpawned) THEN "set" ELSE "idle"]
    /\ UNCHANGED providerVars

\* Run(): a cycle that submitted nothing ends, the loop starts over
RunnerLoop ==
    /\ pure.stage = "runner"
    /\ pure.pc = "idle"
    /\ pure' = [pure EXCEPT !.pc = "wait"]
    /\ UNCHANGED providerVars

\* Run(): bRefreshSpawned = true
RunnerSet ==
    /\ pure.stage = "runner"
    /\ pure.pc = "set"
    /\ pure' = [pure EXCEPT !.pc = "async", !.bRefreshSpawned = TRUE]
    /\ UNCHANGED providerVars

\* Run(): Async(EAsyncExecution::TaskGraphMainThread, ...) queues the task
RunnerAsync ==
    /\ pure.stage = "runner"
    /\ pure.pc = "async"
    /\ pure' = [pure EXCEPT !.pc = "check", !.Task = "pending", !.ExecuteResult = "none"]
    /\ UNCHANGED providerVars

\* Run(): if (bRefreshSpawned && bRunThread)
RunnerCheck ==
    /\ pure.stage = "runner"
    /\ pure.pc = "check"
    /\ pure' = [pure EXCEPT !.pc = IF pure.bRefreshSpawned THEN "get" ELSE "idle"]
    /\ UNCHANGED providerVars

\* Run(): Result = ExecuteResult.Get() returns once the task has run
RunnerGet ==
    /\ pure.stage = "runner"
    /\ pure.pc = "get"
    /\ pure.Task = "done"
    /\ pure' = [pure EXCEPT !.pc = "recheck", !.Result = pure.ExecuteResult]
    /\ UNCHANGED providerVars

\* Run(): if (bRefreshSpawned)
RunnerRecheck ==
    /\ pure.stage = "runner"
    /\ pure.pc = "recheck"
    /\ pure' = [pure EXCEPT !.pc = IF pure.bRefreshSpawned THEN "store" ELSE "idle"]
    /\ UNCHANGED providerVars

\* Run(): bRefreshSpawned = Result == ECommandResult::Succeeded
RunnerStore ==
    /\ pure.stage = "runner"
    /\ pure.pc = "store"
    /\ pure' = [pure EXCEPT !.pc = "wait", !.bRefreshSpawned = RefreshStillSpawned(pure.Result)]
    /\ UNCHANGED providerVars

\* the task on the owning thread, the module is gone: it returns Failed and
\* calls nothing
RefreshTaskNoModule ==
    /\ pure.stage = "runner"
    /\ pure.Task = "pending"
    /\ pure' = [pure EXCEPT !.Task = "done", !.ExecuteResult = "Failed"]
    /\ UNCHANGED providerVars

\* the task on the owning thread: Provider.Execute(Fetch, Asynchronous,
\* delegate).  With a pool the command is queued and Execute returns
\* Succeeded; without one the worker runs inline, the delegate is called
\* (OnSourceControlOperationComplete: bRefreshSpawned = false) and Execute
\* returns the worker's result.
RefreshTaskExecute(ok) ==
    /\ pure.stage = "runner"
    /\ pure.Task = "pending"
    /\ Len(pure.Refreshes) < MaxRefreshes
    /\ pure' = IF RunsInline
               THEN [pure EXCEPT !.Task = "done", !.bRefreshSpawned = FALSE,
                                 !.ExecuteResult = IF ok THEN "Succeeded" ELSE "Failed"]
               ELSE [pure EXCEPT !.Task = "done", !.ExecuteResult = "Succeeded",
                                 !.Refreshes = Append(@, "queued")]
    /\ ~RunsInline => ok
    /\ UNCHANGED providerVars

\* pool thread: DoThreadedWork() of a queued refresh command
RefreshDoThreadedWork(i) ==
    /\ pure.stage = "runner"
    /\ i \in 1..Len(pure.Refreshes)
    /\ pure.Refreshes[i] = "queued"
    /\ pure' = [pure EXCEPT !.Refreshes[i] = "processed"]
    /\ UNCHANGED providerVars

\* Tick() on the owning thread: the first processed refresh command is
\* removed and its delegate called: bRefreshSpawned = false
RefreshTick ==
    /\ pure.stage = "runner"
    /\ \E i \in 1..Len(pure.Refreshes) :
          /\ pure.Refreshes[i] = "processed"
          /\ \A j \in 1..(i - 1) : pure.Refreshes[j] # "processed"
          /\ pure' = [pure EXCEPT
                        !.Refreshes = [k \in 1..(Len(@) - 1) |-> IF k < i THEN @[k] ELSE @[k + 1]],
                        !.bRefreshSpawned = FALSE]
    /\ UNCHANGED providerVars

RunnerNext ==
    \/ RunnerWait
    \/ RunnerLoop
    \/ RunnerSet
    \/ RunnerAsync
    \/ RunnerCheck
    \/ RunnerGet
    \/ RunnerRecheck
    \/ RunnerStore
    \/ RefreshTaskNoModule
    \/ \E ok \in BOOLEAN : RefreshTaskExecute(ok)
    \/ \E i \in 1..MaxRefreshes : RefreshDoThreadedWork(i)
    \/ RefreshTick

\* the runner's thread runs, the owning thread runs its tasks and calls
\* Tick(), the pool runs the queued workers and they return
RunnerSpec ==
    /\ RunnerInit
    /\ [][RunnerNext]_vars
    /\ WF_vars(RunnerWait \/ RunnerLoop \/ RunnerSet \/ RunnerAsync \/ RunnerCheck
               \/ RunnerGet \/ RunnerRecheck \/ RunnerStore)
    /\ WF_vars(RefreshTaskNoModule \/ \E ok \in BOOLEAN : RefreshTaskExecute(ok))
    /\ WF_vars(\E i \in 1..MaxRefreshes : RefreshDoThreadedWork(i))
    /\ WF_vars(RefreshTick)

(***************************************************************************)
(* CheckLFSLockable: the probe of the lockable file types, run by the init *)
(* function on a task thread, and the static array LockableTypes           *)
(***************************************************************************)
\* const TArray<FString> Files{ "*.uasset", "*.umap" } of the init function
ProbeFiles == <<"*.uasset", "*.umap">>

\* InFiles[i].RightChop(1): the pattern without its wildcard
RightChop1(pattern) ==
    CASE pattern = "*.uasset" -> ".uasset"
      [] pattern = "*.umap" -> ".umap"

ProbeIds == 1..MaxProbes

\* the elements of LockableTypes, the first ArrayNum slots of its memory:
\* the types for which IsFileLFSLockable answers true
LockableTypes(Data, ArrayNum) == {Data[k] : k \in 1..ArrayNum}

ProbeInit ==
    /\ ProviderInit
    /\ GBackgroundPriorityThreadPool
    /\ \E Attr \in [1..Len(ProbeFiles) -> {"set", "unspecified"}] :
          pure = [stage |-> "probe",
                  \* git check-attr lockable: what the repository answers
                  Attr |-> Attr,
                  Data |-> [k \in 1..(MaxProbes * Len(ProbeFiles)) |-> ""],
                  ArrayNum |-> 0,
                  Probes |-> [p \in ProbeIds |->
                              [pc |-> "idle", i |-> 1, Results |-> <<>>, OldNum |-> 0]]]

\* CheckLFSLockable: RunCommand("check-attr") fails, the probe returns false
ProbeRunCommandFails(p) ==
    /\ pure.stage = "probe"
    /\ pure.Probes[p].pc = "idle"
    /\ pure' = [pure EXCEPT !.Probes[p].pc = "failed"]
    /\ UNCHANGED providerVars

\* CheckLFSLockable: RunCommand("check-attr") returns one line per file
ProbeRunCommand(p) ==
    /\ pure.stage = "probe"
    /\ pure.Probes[p].pc = "idle"
    /\ pure' = [pure EXCEPT !.Probes[p].pc = "loop", !.Probes[p].Results = pure.Attr]
    /\ UNCHANGED providerVars

\* CheckLFSLockable: one test of the loop; for a result that ends with
\* "set", LockableTypes.Add begins by reading ArrayNum
ProbeLoop(p) ==
    LET P == pure.Probes[p] IN
    /\ pure.stage = "probe"
    /\ P.pc = "loop"
    /\ pure' = IF P.i > Len(ProbeFiles)
               THEN [pure EXCEPT !.Probes[p].pc = "done"]
               ELSE IF P.Results[P.i] = "set"
               THEN [pure EXCEPT !.Probes[p].pc = "add", !.Probes[p].OldNum = pure.ArrayNum]
               ELSE [pure EXCEPT !.Probes[p].i = P.i + 1]
    /\ UNCHANGED providerVars

\* LockableTypes.Add ends: ArrayNum = OldNum + 1 and the element is written
\* to slot OldNum.  No lock orders the Add of one probe and the Add of
\* another, so OldNum may be stale.
ProbeAdd(p) ==
    LET P == pure.Probes[p] IN
    /\ pure.stage = "probe"
    /\ P.pc = "add"
    /\ pure' = [pure EXCEPT !.Probes[p].pc = "loop", !.Probes[p].i = P.i + 1,
                            !.ArrayNum = P.OldNum + 1,
                            !.Data[P.OldNum + 1] = RightChop1(ProbeFiles[P.i])]
    /\ UNCHANGED providerVars

ProbeNext ==
    \E p \in ProbeIds :
        \/ ProbeRunCommandFails(p)
        \/ ProbeRunCommand(p)
        \/ ProbeLoop(p)
        \/ ProbeAdd(p)

ProbeSpec == ProbeInit /\ [][ProbeNext]_vars

(***************************************************************************)
(* FFriendshipperSourceControlState: the category of a file state          *)
(***************************************************************************)
EGitState ==
    {"Added", "CheckedOut", "Deleted", "Ignored", "Lockable", "LockedOther", "Modified",
     "None", "NotAtHead", "NotLatest", "Unmerged", "Unmodified", "Untracked"}

\* every combination of values of the four axes
AxisStates ==
    [FileState : FileStates, TreeState : TreeStates,
     LockState : LockStates, RemoteState : RemoteStates]

IsCurrent(State) == State.RemoteState # "NotAtHead" /\ State.RemoteState # "NotLatest"

IsSourceControlled(State) ==
    /\ State.TreeState # "Untracked"
    /\ State.TreeState # "Ignored"
    /\ State.TreeState # "NotInRepo"

IsAdded(State) ==
    \/ State.TreeState = "Staged"
    \/ State.TreeState = "Untracked" /\ State.LockState = "Locked"

CanCheckout(State) ==
    IF State.TreeState = "NotInRepo" THEN FALSE
    ELSE IF State.TreeState = "Untracked" THEN FALSE
    ELSE IF State.LockState = "Unlockable" THEN FALSE
    ELSE State.LockState = "NotLocked" /\ IsCurrent(State)

\* GetGitState with the test of NotLatest ahead of the test of LockedOther
GetGitStateNotLatestFirst(State) ==
    IF State.RemoteState = "NotAtHead" THEN "NotAtHead"
    ELSE IF State.RemoteState = "NotLatest" THEN "NotLatest"
    ELSE IF State.LockState = "LockedOther" THEN "LockedOther"
    ELSE IF IsAdded(State) THEN "Added"
    ELSE IF State.FileState \in {"Unmerged", "Deleted", "Modified"} THEN State.FileState
    ELSE IF State.TreeState = "Untracked" THEN "Untracked"
    ELSE IF State.LockState = "Locked" THEN "CheckedOut"
    ELSE IF IsSourceControlled(State)
         THEN IF CanCheckout(State) THEN "Lockable" ELSE "Unmodified"
    ELSE "None"

\* GetGitState with the test of LockedOther ahead of the switch on RemoteState
GetGitStateLockedOtherFirst(State) ==
    IF State.LockState = "LockedOther" THEN "LockedOther"
    ELSE IF State.RemoteState = "NotAtHead" THEN "NotAtHead"
    ELSE IF State.RemoteState = "NotLatest" THEN "NotLatest"
    ELSE IF IsAdded(State) THEN "Added"
    ELSE IF State.FileState \in {"Unmerged", "Deleted", "Modified"} THEN State.FileState
    ELSE IF State.TreeState = "Untracked" THEN "Untracked"
    ELSE IF State.LockState = "Locked" THEN "CheckedOut"
    ELSE IF IsSourceControlled(State)
         THEN IF CanCheckout(State) THEN "Lockable" ELSE "Unmodified"
    ELSE "None"

GetGitState(State) ==
    IF State.RemoteState = "NotAtHead" THEN "NotAtHead"
    ELSE IF State.LockState = "LockedOther" THEN "LockedOther"
    ELSE IF State.RemoteState = "NotLatest" THEN "NotLatest"
    ELSE IF IsAdded(State) THEN "Added"
    ELSE IF State.FileState = "Unmerged" THEN "Unmerged"
    ELSE IF State.FileState = "Deleted" THEN "Deleted"
    ELSE IF State.FileState = "Modified" THEN "Modified"
    ELSE IF State.TreeState = "Untracked" THEN "Untracked"
    ELSE IF State.LockState = "Locked" THEN "CheckedOut"
    ELSE IF IsSourceControlled(State)
         THEN IF CanCheckout(State) THEN "Lockable" ELSE "Unmodified"
    ELSE "None"

\* a file state of any combination of the four axes, not yet classified
ClassifyInit ==
    /\ ProviderInit
    /\ GBackgroundPriorityThreadPool
    /\ pure \in [stage : {"classify0"}, S : AxisStates, Category : {""}]

\* GetGitState() of the file state
ClassifyCall ==
    /\ pure.stage = "classify0"
    /\ pure' = [pure EXCEPT !.stage = "classify1", !.Category = GetGitState(pure.S)]
    /\ UNCHANGED providerVars

ClassifyNext == ClassifyCall

ClassifySpec == ClassifyInit /\ [][ClassifyNext]_vars

(***************************************************************************)
(* Properties of Tick()                                                    *)
(***************************************************************************)
\* the files and axes of the deltas D that the cache holds after a merge
DeltasInCache(D, cache) ==
    \A f \in DOMAIN D :
        /\ D[f].FileState # "Unset" => cache[f].FileState = D[f].FileState
        /\ D[f].TreeState # "Unset" => cache[f].TreeState = D[f].TreeState
        /\ D[f].LockState # "Unset" =>
              cache[f].LockState = D[f].LockState /\ cache[f].LockUser = D[f].LockUser
        /\ D[f].RemoteState # "Unset" => cache[f].RemoteState = D[f].RemoteState

\* the latest call was a Tick() that removed a command from the queue
TickDrained == lastCall.op = "Tick" /\ lastCall.removed # {}

\* C1: one call of Tick() removes from the queue, merges and calls back at
\* most one command, however many completed commands the queue holds
C1_TickAtMostOne ==
    lastCall.op = "Tick" =>
        /\ Cardinality(lastCall.removed) <= 1
        /\ Cardinality(lastCall.merged) <= 1
        /\ Cardinality(lastCall.called) <= 1
        /\ lastCall.removed \cup lastCall.merged \cup {p[1] : p \in lastCall.called}
              \subseteq {lastCall.cmd}

\* a Tick() drained one command and left another completed command queued
C1_Witness ==
    /\ TickDrained
    /\ \E d \in Range(CommandQueue) : Commands[d].bExecuteProcessed

C3_DrainedAfterN ==
    drainRun # NoRun =>
        /\ drainRun.k <= drainRun.n
        /\ Len(CommandQueue) = drainRun.n - drainRun.k

\* a queue of at least two completed commands was emptied by as many Ticks
C3_Witness ==
    /\ drainRun.n >= 2
    /\ drainRun.k = drainRun.n
    /\ CommandQueue = <<>>

\* C4 as stated: the completion callback of a cancelled command is never
\* invoked, and the Tick() that finds it cancelled and completed frees it
C4_CancelledNeverCalledBack ==
    (lastCall.op = "Tick" /\ lastCall.snap.bCancelled) =>
        /\ lastCall.called = {}
        /\ lastCall.removed # {} => Commands[lastCall.cmd].life = "freed"

\* C4, amended: a cancelled command is never called back with Succeeded or
\* Failed.  A Tick() that finds it cancelled while its worker runs calls it
\* back with Cancelled and leaves it queued, marked auto-delete; the Tick()
\* that finds it cancelled and completed removes it, calls nothing and
\* frees it.
C4_CancelledCallback ==
    (lastCall.op = "Tick" /\ lastCall.snap.bCancelled) =>
        /\ \A p \in lastCall.called : p = <<lastCall.cmd, "Cancelled">>
        /\ lastCall.removed # {} =>
              /\ lastCall.snap.bExecuteProcessed
              /\ lastCall.called = {}
              /\ Commands[lastCall.cmd].life = "freed"
        /\ lastCall.removed = {} =>
              /\ ~lastCall.snap.bExecuteProcessed
              /\ lastCall.called = {<<lastCall.cmd, "Cancelled">>}
              /\ lastCall.cmd \in Range(CommandQueue)
              /\ Commands[lastCall.cmd].bAutoDelete

\* a Tick() drained and freed a command that was cancelled and completed
C4_Witness ==
    /\ TickDrained
    /\ lastCall.snap.bCancelled
    /\ Commands[lastCall.cmd].life = "freed"

\* C5: the Tick() that drains a command whose worker returned failure
\* merges the worker's deltas: every axis a delta sets is in the cache
C5_FailedStillMerged ==
    (TickDrained /\ ~lastCall.snap.bCommandSuccessful) =>
        /\ lastCall.merged = {lastCall.cmd}
        /\ DeltasInCache(lastCall.snap.States, StateCache)

\* a Tick() drained a failed command whose worker left deltas
C5_Witness ==
    /\ TickDrained
    /\ ~lastCall.snap.bCommandSuccessful
    /\ lastCall.snap.States # EmptyStates
    /\ DeltasInCache(lastCall.snap.States, StateCache)

\* a command whose worker returned failure has just left the dispatcher:
\* drained by Tick(), or run on the calling thread by Execute()
FailedCommandDone ==
    /\ TickDrained \/ (lastCall.op = "Execute" /\ lastCall.ranWorker # {})
    /\ ~lastCall.snap.bCommandSuccessful

\* the callback was invoked with Failed, the error messages handed over
CalledBackFailed ==
    /\ lastCall.called = {<<lastCall.cmd, "Failed">>}
    /\ lastCall.snap.OpErrors = lastCall.snap.ErrorMessages

\* C6 as stated: every failed command is called back with Failed, with its
\* error messages handed to the operation
C6_FailedAlwaysCalledBack == FailedCommandDone => CalledBackFailed

\* C6, amended: every failed command that was not cancelled is called back
\* with Failed, with its error messages handed to the operation; a failed
\* command that was cancelled is drained without a callback
C6_FailedCalledBackUnlessCancelled ==
    FailedCommandDone =>
        IF lastCall.snap.bCancelled THEN lastCall.called = {} ELSE CalledBackFailed

\* a Tick() drained a failed command that left an error message and called
\* it back with Failed
C6_Witness ==
    /\ TickDrained
    /\ ~lastCall.snap.bCommandSuccessful
    /\ ~lastCall.snap.bCancelled
    /\ lastCall.snap.ErrorMessages > 0
    /\ CalledBackFailed

(***************************************************************************)
(* Properties of the threads                                               *)
(***************************************************************************)
\* the latest call merged deltas or invoked a completion callback
MergedOrCalled == lastCall.merged # {} \/ lastCall.called # {}

\* C7 as stated: every merge and every callback happens inside Tick()
C7_OnlyInTick == MergedOrCalled => lastCall.op = "Tick"

\* C7, amended: every merge and every callback happens on the owning
\* thread; for a command placed in the queue, inside Tick().  Outside
\* Tick(): the game-thread task of the repository check merges the initial
\* status; Execute() calls back with Failed when it rejects the operation;
\* without a pool Execute() runs the command, merges and calls back.
C7_OnlyInTickWhenQueued ==
    MergedOrCalled =>
        /\ lastCall.thread = "main"
        /\ \/ lastCall.op = "Tick"
           \/ lastCall.op = "InitSuccess" /\ lastCall.called = {}
           \/ /\ lastCall.op = "Execute"
              /\ lastCall.cmd = NoCmd
              /\ lastCall.merged = {}
              /\ lastCall.called = {<<NoCmd, "Failed">>}
           \/ /\ lastCall.op = "Execute"
              /\ ~GBackgroundPriorityThreadPool
              /\ lastCall.ranWorker = {lastCall.cmd}

\* with a pool, a Tick() merged the deltas of a queued command and called
\* it back
C7_Witness ==
    /\ GBackgroundPriorityThreadPool
    /\ TickDrained
    /\ lastCall.merged = {lastCall.cmd}
    /\ lastCall.called # {}

\* C8 as stated: no worker's Execute, on a pool thread, creates, removes or
\* modifies an entry of the state cache
C8_WorkerLeavesCache == lastCall.thread = "pool" => ~lastCall.cacheChanged

\* C9: a synchronous Execute() returns only when its command is no longer
\* in the queue
C9_SyncReturnsDequeued ==
    lastCall.syncReturned # NoCmd => lastCall.syncReturned \notin Range(CommandQueue)

\* a synchronous Execute() returned for a command that had been queued
C9_Witness ==
    /\ GBackgroundPriorityThreadPool
    /\ lastCall.syncReturned # NoCmd
    /\ lastCall.snap.bExecuteProcessed

\* C10 as stated: an asynchronous Execute() never runs the worker and never
\* invokes the callback before it returns
C10_AsyncNeverRunsInline ==
    (lastCall.op = "Execute" /\ lastCall.conc = "Asynchronous") =>
        lastCall.ranWorker = {} /\ lastCall.called = {}

\* C10, amended: with a pool, an asynchronous Execute() that accepts the
\* operation only enqueues the command and returns Succeeded: the worker
\* has not run, nothing is merged, no callback is invoked, and the callback
\* of a queued command is invoked by Tick() only
C10_AsyncOnlyEnqueues ==
    /\ (/\ lastCall.op = "Execute"
        /\ lastCall.conc = "Asynchronous"
        /\ lastCall.cmd # NoCmd
        /\ GBackgroundPriorityThreadPool) =>
            /\ lastCall.ranWorker = {} /\ lastCall.merged = {} /\ lastCall.called = {}
            /\ lastCall.ret = "Succeeded"
            /\ lastCall.cmd \in Range(CommandQueue)
            /\ ~Commands[lastCall.cmd].bExecuteProcessed
    /\ GBackgroundPriorityThreadPool =>
          \A p \in lastCall.called : p[1] # NoCmd => lastCall.op = "Tick"

\* with a pool, an asynchronous Execute() returned with its command queued
C10_Witness ==
    /\ GBackgroundPriorityThreadPool
    /\ lastCall.op = "Execute"
    /\ lastCall.conc = "Asynchronous"
    /\ lastCall.cmd \in Range(CommandQueue)

\* C11: without a pool, when Execute() returns the worker has run, its
\* deltas are in the cache, the callback was invoked with the worker's
\* result, and the command is not, and never was, in the queue
C11_InlineFallback ==
    ~GBackgroundPriorityThreadPool =>
        /\ CommandQueue = <<>>
        /\ (lastCall.op = "Execute" /\ lastCall.cmd # NoCmd) =>
              /\ lastCall.ranWorker = {lastCall.cmd}
              /\ lastCall.snap.bExecuteProcessed
              /\ lastCall.merged = {lastCall.cmd}
              /\ DeltasInCache(lastCall.snap.States, StateCache)
              /\ lastCall.called =
                    {<<lastCall.cmd,
                       IF lastCall.snap.bCommandSuccessful THEN "Succeeded" ELSE "Failed">>}
              /\ lastCall.snap.nReturn = 1

\* without a pool, an asynchronous Execute() returned after a worker that
\* left deltas succeeded
C11_Witness ==
    /\ ~GBackgroundPriorityThreadPool
    /\ lastCall.op = "Execute"
    /\ lastCall.conc = "Asynchronous"
    /\ lastCall.called = {<<lastCall.cmd, "Succeeded">>}
    /\ lastCall.snap.States # EmptyStates

(***************************************************************************)
(* Properties of the merge                                                 *)
(***************************************************************************)
Merged == pure.stage \in {"merge1", "merge2"}

\* the delta proposes Added for an entry that is neither unknown nor
\* add-eligible
AddRejected(S, D) ==
    /\ D.FileState = "Added"
    /\ ~(S.FileState = "Unknown" /\ S.TreeState = "NotInRepo")
    /\ S.TreeState # "Untracked"

\* C12: every axis on which the delta is Unset has the same cached value
\* after the merge as before, whatever the delta carries on the other axes
C12_AxisIndependence ==
    Merged =>
        /\ pure.D.FileState = "Unset" => pure.Out.FileState = pure.S.FileState
        /\ pure.D.TreeState = "Unset" => pure.Out.TreeState = pure.S.TreeState
        /\ pure.D.LockState = "Unset" =>
              pure.Out.LockState = pure.S.LockState /\ pure.Out.LockUser = pure.S.LockUser
        /\ pure.D.RemoteState = "Unset" =>
              pure.Out.RemoteState = pure.S.RemoteState
              /\ pure.Out.HeadBranch = pure.S.HeadBranch

\* a delta that is Unset on TreeState and LockState changed FileState and
\* RemoteState and left a Working, LockedOther entry Working and LockedOther
C12_Witness ==
    /\ pure.stage = "merge1"
    /\ pure.D.TreeState = "Unset" /\ pure.D.LockState = "Unset"
    /\ pure.S.TreeState = "Working" /\ pure.S.LockState = "LockedOther"
    /\ pure.Out.TreeState = "Working" /\ pure.Out.LockState = "LockedOther"
    /\ pure.Out.FileState # pure.S.FileState
    /\ pure.Out.RemoteState # pure.S.RemoteState

\* the TreeState, LockState and RemoteState axes the delta sets hold the
\* delta's value after the merge
SetAxesOverwritten ==
    /\ pure.D.TreeState # "Unset" => pure.Out.TreeState = pure.D.TreeState
    /\ pure.D.LockState # "Unset" => pure.Out.LockState = pure.D.LockState
    /\ pure.D.RemoteState # "Unset" => pure.Out.RemoteState = pure.D.RemoteState

\* C13 as stated: the TreeState, LockState and RemoteState axes the delta
\* sets hold the delta's value after the merge, whatever its FileState is
C13_SetAxesAlwaysOverwritten == Merged => SetAxesOverwritten

\* C13, amended: they hold the delta's value unless the delta proposes
\* Added for an entry that is neither unknown nor add-eligible; such a
\* delta is skipped whole and the entry keeps every axis
C13_SetAxesOverwrittenUnlessRejected ==
    Merged =>
        IF AddRejected(pure.S, pure.D)
        THEN pure.Out = pure.S
        ELSE SetAxesOverwritten

\* a delta with FileState Modified replaced TreeState, LockState and
\* RemoteState of an entry that held other values
C13_Witness ==
    /\ pure.stage = "merge1"
    /\ pure.D.FileState = "Modified"
    /\ pure.D.TreeState \notin {"Unset", pure.S.TreeState}
    /\ pure.D.LockState \notin {"Unset", pure.S.LockState}
    /\ pure.D.RemoteState \notin {"Unset", pure.S.RemoteState}
    /\ SetAxesOverwritten

\* C14: a delta that proposes Added leaves the cached FileState unchanged
\* when the entry is neither unknown nor add-eligible
C14_AddGuard ==
    (Merged /\ AddRejected(pure.S, pure.D)) => pure.Out.FileState = pure.S.FileState

\* an Added delta met a Modified, Working entry, which stayed Modified
C14_Witness ==
    /\ pure.stage = "merge1"
    /\ pure.D.FileState = "Added"
    /\ pure.S.FileState = "Modified" /\ pure.S.TreeState = "Working"
    /\ pure.Out.FileState = "Modified"

\* C15: the same delta applied twice in a row gives the same four axes,
\* lock user and head branch as applied once
C15_MergeIdempotent ==
    pure.stage = "merge2" =>
        /\ pure.Out2.FileState = pure.Out.FileState
        /\ pure.Out2.TreeState = pure.Out.TreeState
        /\ pure.Out2.LockState = pure.Out.LockState
        /\ pure.Out2.LockUser = pure.Out.LockUser
        /\ pure.Out2.RemoteState = pure.Out.RemoteState
        /\ pure.Out2.HeadBranch = pure.Out.HeadBranch

\* a delta that changed all four axes of an entry was applied once more
C15_Witness ==
    /\ pure.stage = "merge2"
    /\ pure.Out.FileState # pure.S.FileState
    /\ pure.Out.TreeState # pure.S.TreeState
    /\ pure.Out.LockState # pure.S.LockState
    /\ pure.Out.RemoteState # pure.S.RemoteState
    /\ pure.Out2.FileState = pure.Out.FileState

(***************************************************************************)
(* Properties of the lock-class workers                                    *)
(***************************************************************************)
\* the files the backend reported as failures
ReportedFailures == {pure.Response.Failures[i].Path : i \in DOMAIN pure.Response.Failures}

LockedByMe(S) == S.LockState = "Locked" /\ S.LockUser = "me"

\* C19 as stated: after a lock-class command is drained, exactly the
\* lockable target files the backend did not report as failures are cached
\* as Locked by the current lock user, also when other files of the batch
\* failed; every file reported as a failure keeps its prior cached state
C19_SucceededFilesLocked ==
    pure.stage = "lock2" =>
        \A f \in pure.Files :
            /\ (f \in pure.Lockable /\ f \notin ReportedFailures) <=> LockedByMe(pure.Out[f])
            /\ f \in ReportedFailures => pure.Out[f] = pure.Cache[f]

Classified == pure.stage = "classify1"

\* the rules of the classifier in their order of precedence, each a
\* condition on the file state and the category it gives
ClassifyRules(S) ==
    << [when |-> S.RemoteState = "NotAtHead", gives |-> "NotAtHead"],
       [when |-> S.LockState = "LockedOther", gives |-> "LockedOther"],
       [when |-> S.RemoteState = "NotLatest", gives |-> "NotLatest"],
       [when |-> S.TreeState = "Staged"
                   \/ (S.TreeState = "Untracked" /\ S.LockState = "Locked"),
        gives |-> "Added"],
       [when |-> S.FileState \in {"Unmerged", "Deleted", "Modified"}, gives |-> S.FileState],
       [when |-> S.TreeState = "Untracked", gives |-> "Untracked"],
       [when |-> S.LockState = "Locked", gives |-> "CheckedOut"],
       [when |-> S.TreeState \notin {"Untracked", "Ignored", "NotInRepo"}
                   /\ S.LockState = "NotLocked"
                   /\ S.RemoteState \notin {"NotAtHead", "NotLatest"},
        gives |-> "Lockable"],
       [when |-> S.TreeState \notin {"Untracked", "Ignored", "NotInRepo"},
        gives |-> "Unmodified"],
       [when |-> TRUE, gives |-> "None"] >>

\* the category of the first rule that matches
FirstMatch(S) ==
    LET R == ClassifyRules(S)
        i == CHOOSE k \in DOMAIN R : R[k].when /\ \A j \in 1..(k - 1) : ~R[j].when
    IN  R[i].gives

\* C17: for every combination of the four axes GetGitState returns a
\* category, and it is the category of the first matching rule in the order
\* NotAtHead, LockedOther, NotLatest, Added (Staged, or Untracked and Locked),
\* FileState Unmerged/Deleted/Modified, Untracked, CheckedOut (Locked),
\* Lockable or Unmodified for a source-controlled file, None; a state that is
\* LockedOther and NotLatest is classified LockedOther.
C17_ClassifyPrecedence ==
    Classified =>
        /\ pure.Category \in EGitState
        /\ pure.Category = FirstMatch(pure.S)
        /\ (pure.S.LockState = "LockedOther" /\ pure.S.RemoteState = "NotLatest"
                => pure.Category = "LockedOther")

\* a state that is both LockedOther and NotLatest has been classified
C17_Witness ==
    /\ Classified
    /\ pure.S.LockState = "LockedOther"
    /\ pure.S.RemoteState = "NotLatest"
    /\ pure.Category = "LockedOther"

\* C18: a file state whose RemoteState is NotAtHead is classified NotAtHead
\* whatever its FileState, TreeState and LockState are.
C18_NotAtHeadDominates ==
    Classified /\ pure.S.RemoteState = "NotAtHead" => pure.Category = "NotAtHead"

\* a state that is NotAtHead and LockedOther has been classified NotAtHead
C18_Witness ==
    /\ Classified
    /\ pure.S.RemoteState = "NotAtHead"
    /\ pure.S.LockState = "LockedOther"
    /\ pure.Category = "NotAtHead"

(***************************************************************************)
(* Properties of two commands drained one after the other                  *)
(***************************************************************************)
\* both commands have been drained and both left a delta for file f
BothDrained(f) ==
    /\ pure.stage = "race"
    /\ Len(pure.Drained) = 2
    /\ f \in DOMAIN pure.Drained[1].States
    /\ f \in DOMAIN pure.Drained[2].States

\* the value of an axis after two merges: the later delta's if set, else
\* the earlier delta's if set, else the value before either
LaterThenEarlier(later, earlier, before) ==
    IF later # "Unset" THEN later ELSE IF earlier # "Unset" THEN earlier ELSE before

\* the entry of file f has, on every axis, the value that the order of the
\* two drains gives
DrainOrderDecides(f) ==
    LET D1 == pure.Drained[1].States[f]
        D2 == pure.Drained[2].States[f]
        S0 == GetStateInternal(pure.Drained[1].before, f)
        S == StateCache[f]
    IN  /\ S.FileState = LaterThenEarlier(D2.FileState, D1.FileState, S0.FileState)
        /\ S.TreeState = LaterThenEarlier(D2.TreeState, D1.TreeState, S0.TreeState)
        /\ S.LockState = LaterThenEarlier(D2.LockState, D1.LockState, S0.LockState)
        /\ S.RemoteState = LaterThenEarlier(D2.RemoteState, D1.RemoteState, S0.RemoteState)

\* the merge of a drained command left every axis alone that its delta for
\* file f does not set
UnsetAxesKept(d, f) ==
    LET D == d.States[f]
        S0 == GetStateInternal(d.before, f)
        S == d.after[f]
    IN  /\ D.FileState = "Unset" => S.FileState = S0.FileState
        /\ D.TreeState = "Unset" => S.TreeState = S0.TreeState
        /\ D.LockState = "Unset" => S.LockState = S0.LockState
        /\ D.RemoteState = "Unset" => S.RemoteState = S0.RemoteState

CheckInDrained ==
    /\ pure.stage = "checkin2"
    /\ pure.ok
    /\ pure.States # EmptyStates
    /\ IsDeleted(pure.Before["X"])
    /\ pure.Before["Y"].TreeState = "Working"

\* C21: after a successful CheckIn of X (cached as Deleted) and Y (cached as
\* modified) has been executed and drained, the cache holds no entry for X,
\* and holds for Y the status merged from the re-fetch.
C21_DeletedEntryDropped ==
    CheckInDrained =>
        /\ pure.After["X"] = NoEntry
        /\ pure.After["Y"] # NoEntry
        /\ DeltasInCache([f \in {"Y"} |-> pure.States[f]], pure.After)

(***************************************************************************)
(* Properties of the Revert worker                                         *)
(***************************************************************************)
Reverted == pure.stage = "revert1"

\* the command has files to restore in the working copy, and every call other
\* than the restore succeeds
RestoreDecides ==
    /\ Reverted
    /\ ~pure.In.bRevertAll /\ pure.In.Other
    /\ pure.In.RmOk /\ pure.In.ResetOk /\ pure.In.UnlockOk

\* the restore step was tried until it succeeded, at most RevertAttempts
\* times, with a sleep after every failed attempt, and the command succeeds
\* if one of the attempts did
RestoreRetried ==
    LET Fails == pure.In.Fails
        R == pure.Result
    IN  /\ R.Calls <= RevertAttempts
        /\ R.Calls = IF Fails < RevertAttempts THEN Fails + 1 ELSE RevertAttempts
        /\ R.Sleeps = IF Fails < RevertAttempts THEN Fails ELSE RevertAttempts
        /\ R.ok = (Fails < RevertAttempts)

C23_UnlockNeverFailsRevert ==
    Reverted /\ pure.In.Locked =>
        /\ pure.Result.UnlockCalled
        /\ (pure.In.RmOk /\ pure.In.ResetOk /\ pure.In.Fails < RevertAttempts
               => pure.Result.ok)

(***************************************************************************)
(* Properties of a lock request without a usable response                  *)
(***************************************************************************)
\* the lock request of the command was sent and got no usable response
LockRequestUnanswered == pure.Lockable # {} /\ ~pure.Response.parsed

\* C24: a command whose remote call gets no usable response completes as
\* failed and carries an error message (here: the lock request of a
\* lock-class worker).
C24_NoResponseFailsCommand ==
    (pure.stage \in {"lock1", "lock2"} /\ LockRequestUnanswered) =>
        ~pure.Result.ok /\ pure.Result.ErrorMessages # <<>>

\* C25: when the lock request of a command gets no usable response, the
\* drain of the command leaves every entry of the cache as it was; no file
\* is marked Locked.
C25_NoResponseLeavesCache ==
    (pure.stage = "lock2" /\ LockRequestUnanswered) => pure.Out = pure.Cache

(***************************************************************************)
(* Properties of the Delete worker                                         *)
(***************************************************************************)
\* a Delete command took its locks, could not delete its files from disk,
\* and has been drained
DeleteFailedOnDisk ==
    /\ pure.stage = "lock2"
    /\ pure.Kind = "Delete"
    /\ pure.Files # {}
    /\ pure.Response.Failures = <<>>
    /\ ~pure.bDidDelete

\* C26: when the delete of the files from disk fails in the Delete worker,
\* the command fails and the cached FileState of the files does not become
\* Deleted at the drain.
C26_FailedDeleteNotRecorded ==
    DeleteFailedOnDisk =>
        /\ ~pure.Result.ok
        /\ \A f \in pure.Files : pure.Out[f].FileState # "Deleted"

(***************************************************************************)
(* Properties of the state-changed notification                            *)
(***************************************************************************)
\* C27: whenever the merge of a Tick() altered an entry of the state cache,
\* OnSourceControlStateChanged is broadcast before that Tick() returns.
C27_ChangeBroadcast ==
    lastCall.op = "Tick" /\ lastCall.cacheChanged => lastCall.broadcast

\* a Tick() merged the deltas of a failed command, the cache changed and the
\* notification was broadcast
C27_Witness ==
    /\ lastCall.op = "Tick"
    /\ lastCall.cacheChanged
    /\ lastCall.broadcast
    /\ ~lastCall.snap.bCommandSuccessful

(***************************************************************************)
(* Properties of the provider while the backend is unreachable             *)
(***************************************************************************)
\* C28: with the backend unreachable for good, the provider eventually is
\* and stays disabled: IsEnabled is false, and operations other than Connect
\* are rejected instead of sending requests.
C28_UnreachableDisables == <>[](pure.stage = "conn" /\ ~pure.bGitRepositoryFound)

(***************************************************************************)
(* Properties of the completion delegate and of the queue                  *)
(***************************************************************************)
\* C29: the completion delegate of a command is called at most once over
\* the life of the command, whatever the order of Tick(), CancelOperation()
\* and the end of the worker.
C29_DelegateAtMostOnce == \A c \in CmdIds : Commands[c].nReturn <= 1

\* C30: while Tick() keeps being called, a queued command whose worker has
\* returned is eventually removed from the queue, cancelled commands in the
\* queue or not.
C30_ProcessedIsRemoved ==
    \A c \in CmdIds :
        (c \in Range(CommandQueue) /\ Commands[c].bExecuteProcessed)
            ~> (c \notin Range(CommandQueue))

(***************************************************************************)
(* Properties of the life of a command and of the result of Execute()      *)
(***************************************************************************)
\* a command that exists and that nothing will delete: it is not in the queue
\* (Tick() deletes queued commands) and no ExecuteSynchronousCommand holds it
Leaked(c) ==
    /\ Commands[c].life = "live"
    /\ c \notin Range(CommandQueue)
    /\ mainThread.cmd # c

\* C31: every command Execute() creates is freed, once, and not while it is
\* queued or running: no command is left allocated with nothing to free it,
\* and no freed command is in the queue.
C31_CommandsFreedOnce ==
    \A c \in CmdIds :
        /\ ~Leaked(c)
        /\ Commands[c].life = "freed" => c \notin Range(CommandQueue)

\* C32: a synchronous Execute() returns the result the completion delegate
\* of its command got: Cancelled for a cancelled command, else Succeeded if
\* the worker returned true, else Failed.
C32_SyncResultIsCallbackResult ==
    (lastCall.op = "Execute" /\ lastCall.conc = "Synchronous" /\ lastCall.ret # "none") =>
        IF lastCall.cmd = NoCmd
        THEN lastCall.called = {<<NoCmd, lastCall.ret>>}
        ELSE /\ lastCall.snap.Results = {lastCall.ret}
             /\ lastCall.snap.nReturn = 1
             /\ lastCall.ret = ReturnResultsValue(lastCall.snap)

\* a synchronous Execute() returned Succeeded after waiting for its queued
\* command
C32_Witness ==
    /\ lastCall.op = "Execute"
    /\ lastCall.conc = "Synchronous"
    /\ lastCall.syncReturned # NoCmd
    /\ GBackgroundPriorityThreadPool
    /\ lastCall.ret = "Succeeded"
    /\ lastCall.snap.Results = {"Succeeded"}

(***************************************************************************)
(* Properties of the merge at the drain of a cancelled command             *)
(***************************************************************************)
\* C33 as stated: the Tick() that drains a cancelled command merges nothing
\* and leaves every cache entry as it was
C33_CancelledNotMerged ==
    (TickDrained /\ lastCall.snap.bCancelled) =>
        /\ lastCall.merged = {}
        /\ ~lastCall.cacheChanged

\* C33, amended: the Tick() that drains a cancelled command merges the
\* deltas of its worker like those of any other command (every axis a delta
\* sets is in the cache afterwards); what it skips is the completion
\* delegate.
C33_CancelledStillMerged ==
    (TickDrained /\ lastCall.snap.bCancelled) =>
        /\ lastCall.merged = {lastCall.cmd}
        /\ DeltasInCache(lastCall.snap.States, StateCache)
        /\ lastCall.called = {}

\* a Tick() drained a cancelled command whose worker left deltas, and the
\* cache changed
C33_Witness ==
    /\ TickDrained
    /\ lastCall.snap.bCancelled
    /\ lastCall.snap.States # EmptyStates
    /\ lastCall.cacheChanged
    /\ lastCall.called = {}

(***************************************************************************)
(* Properties of IgnoreForceCache                                          *)
(***************************************************************************)
\* the latest call was a forced refresh whose list includes f
ForcedRefreshOf(f) == pure.Call.op = "ForceUpdate" /\ f \in Range(pure.Call.InFiles)

\* C34 as stated: an entry suppresses exactly one forced refresh.  The first
\* forced refresh that includes F after a merge updated F does no status
\* update for F and consumes the entry; the forced refresh after that one,
\* with nothing done to F in between, does a status update for F.
C34_IgnoredOnce ==
    \A f \in IgnoreFileIds :
        /\ (ForcedRefreshOf(f) /\ pure.PhaseBefore[f] = "merged") =>
              /\ f \notin Range(pure.Call.ForceUpdate)
              /\ f \notin Range(pure.IgnoreForceCache)
        /\ (ForcedRefreshOf(f) /\ pure.PhaseBefore[f] = "skipped") =>
              f \in Range(pure.Call.ForceUpdate)

\* how many times the list names f
Occurrences(list, f) == Cardinality({k \in 1..Len(list) : list[k] = f})

\* C34, amended: the claim for a list that names F once.  When the list
\* names F more than once, the first occurrence consumes the entry and a
\* later one finds none: that same call does a status update for F.
C34_IgnoredOncePerListEntry ==
    \A f \in IgnoreFileIds :
        /\ (ForcedRefreshOf(f) /\ pure.PhaseBefore[f] = "merged") =>
              /\ f \in Range(pure.Call.Before)
              /\ IF Occurrences(pure.Call.InFiles, f) = 1
                 THEN /\ f \notin Range(pure.Call.ForceUpdate)
                      /\ f \notin Range(pure.IgnoreForceCache)
                 ELSE f \in Range(pure.Call.ForceUpdate)
        /\ (ForcedRefreshOf(f) /\ pure.PhaseBefore[f] = "skipped") =>
              f \in Range(pure.Call.ForceUpdate)

\* a merge updated file F, a forced refresh skipped it, and the forced
\* refresh after that one did a status update for it and merged the status
C34_Witness ==
    /\ pure.stage = "ignore"
    /\ ForcedRefreshOf("F")
    /\ pure.PhaseBefore["F"] = "skipped"
    /\ "F" \in Range(pure.Call.ForceUpdate)
    /\ "F" \in pure.Call.Merged

\* C35: IgnoreForceCache holds at most one entry per file, after any merges
\* and forced refreshes.
C35_OneEntryPerFile ==
    pure.stage = "ignore" =>
        \A f \in IgnoreFileIds : Occurrences(pure.IgnoreForceCache, f) <= 1

(***************************************************************************)
(* Properties of the time stamp a merge leaves                             *)
(***************************************************************************)
\* C36 as stated: the merge that is the first observation of a file (the
\* entry was created for it) leaves the oldest time stamp, and every later
\* merge that applies a delta to the file leaves the current time.
C36_MinOnlyAtFirstMerge ==
    /\ (pure.stage \in {"merge1", "merge2"} /\ pure.S = NewState) =>
          pure.Out.TimeStamp = "Min"
    /\ (pure.stage = "merge2" /\ ~InvalidTransition(pure.Out, pure.D)) =>
          pure.Out2.TimeStamp = "Now"

\* C36, amended: a merge that applies a delta leaves the oldest time stamp
\* if and only if the entry, before the merge, had FileState Unknown and
\* TreeState NotInRepo, as a newly created entry has; a later merge of the
\* file leaves it again as long as the entry still was in that state.
C36_MinIffUnknownBefore ==
    /\ (pure.stage \in {"merge1", "merge2"} /\ ~InvalidTransition(pure.S, pure.D)) =>
          (pure.Out.TimeStamp = "Min" <=> IsUnknown(pure.S))
    /\ (pure.stage = "merge2" /\ ~InvalidTransition(pure.Out, pure.D)) =>
          (pure.Out2.TimeStamp = "Min" <=> IsUnknown(pure.Out))

\* the second merge of a file whose first merge set its lock state only:
\* the entry was still Unknown and NotInRepo, the time stamp is the oldest
\* again
C36_Witness ==
    /\ pure.stage = "merge2"
    /\ pure.S = NewState
    /\ pure.D.FileState = "Unset" /\ pure.D.TreeState = "Unset"
    /\ pure.D.LockState = "Locked"
    /\ pure.Out.LockState = "Locked"
    /\ pure.Out2.TimeStamp = "Min"

(***************************************************************************)
(* Properties of the periodic refresh                                      *)
(***************************************************************************)
\* C37: at most one refresh command of the runner is in flight (submitted,
\* its delegate not yet called) at any time.
C37_OneRefreshInFlight == pure.stage = "runner" => Len(pure.Refreshes) <= 1

\* the runner is about to submit a refresh after an earlier one has been
\* drained
C37_Witness ==
    /\ pure.stage = "runner"
    /\ pure.pc = "async"
    /\ pure.Result = "Succeeded"
    /\ pure.Refreshes = <<>>
    /\ GBackgroundPriorityThreadPool

\* C38: the refresh never gets stuck: with every refresh command completing
\* and every task running, bRefreshSpawned is false again and again, so
\* that a later cycle submits a new refresh.
C38_RefreshNeverStuck == []<>(pure.stage = "runner" /\ ~pure.bRefreshSpawned)

(***************************************************************************)
(* Properties of the files the Delete worker removes from disk             *)
(***************************************************************************)
\* the lock of file f was acquired: the lock request was answered and the
\* answer does not list f as failed
LockAcquired(f) ==
    /\ f \in pure.Lockable
    /\ pure.Response.parsed
    /\ \A i \in DOMAIN pure.Response.Failures : pure.Response.Failures[i].Path # f

\* C39: the Delete worker removes from disk no file whose lock request
\* failed or got no response: every removed file for which a lock was
\* requested has its lock acquired.
C39_DeletedOnlyIfLocked ==
    (pure.stage \in {"lock1", "lock2"} /\ pure.Kind = "Delete") =>
        \A f \in DeletedFromDisk(pure.Files, pure.Lockable, pure.Response, pure.bDidDelete) :
            f \in pure.Lockable => LockAcquired(f)

(***************************************************************************)
(* Properties of the probe of the lockable file types                      *)
(***************************************************************************)
\* the types one probe alone finds lockable
SingleProbe == {RightChop1(ProbeFiles[i]) : i \in {k \in 1..Len(ProbeFiles) : pure.Attr[k] = "set"}}

\* a probe has run to its end
ProbeDone(p) == pure.Probes[p].pc = "done"

\* C40: once a probe has run to its end, the files classified as lockable
\* are those of a single probe, whatever other probes have done or are
\* doing, one after the other or at the same time.
C40_ProbesAgree ==
    (pure.stage = "probe" /\ \E p \in ProbeIds : ProbeDone(p)) =>
        LockableTypes(pure.Data, pure.ArrayNum) = SingleProbe

====
